---- MODULE Spec2Model ----
(***************************************************************************)
(* A model of the RAID tagline driver (tagline_driver.c), its block cache  *)
(* (raid_cache.c) and the request codec.  Every driver call is one action; *)
(* the handlers are operators over a record of the program's globals and   *)
(* are translated statement by statement from the C source.                *)
(***************************************************************************)
EXTENDS Integers, Sequences, FiniteSets, TLC

VARIABLES
    maxtaglines,     \* tagline_driver.c:31
    tagcounter,      \* tagline_driver.c:32   (<<>> models NULL)
    array,           \* tagline_driver.c:34-40
    Globtag,         \* tagline_driver.c:55   (<<>> models NULL)
    GlobResponse,    \* tagline_driver.c:57-64 (the id field, 4 bytes)
    glob_max_items,  \* raid_cache.c:26
    objectCount,     \* raid_cache.c:28
    hit,             \* raid_cache.c:30
    miss,            \* raid_cache.c:30
    insert,          \* raid_cache.c:30
    get,             \* raid_cache.c:30
    timea,           \* raid_cache.c:32
    cacheArray,      \* raid_cache.c:48   (<<>> models NULL)
    raid,            \* the disk array behind client_raid_bus_request
    call,            \* the last completed call: name, arguments, result, events
    prev,            \* the call completed before it
    session,         \* "open" between a successful init and a successful close
    budget,          \* calls still allowed in this run, per kind
    wire,            \* what the array has been sent since the last tagline_driver_init
    written          \* the block last written at each logical address of the session

vars == <<maxtaglines, tagcounter, array, Globtag, GlobResponse, glob_max_items,
          objectCount, hit, miss, insert, get, timea, cacheArray, raid, call, prev,
          session, budget, wire, written>>

----------------------------------------------------------------------------
(* Bounds of the model.  The configuration constants live in headers that  *)
(* are not part of the sources, so they are bounds here.                   *)

RAID_DISKS == 3
RAID_DISKBLOCKS == 4
MAX_TAGLINE_BLOCK_NUMBER == 3
TAGLINE_CACHE_SIZE == 2
MaxLines == 2
MaxBlks == 2
MaxWrites == 2
MaxReads == 1
MaxSignals == 1
MaxSessions == 2
MaxFaults == 1
MaxCacheOps == 4
MaxByte == 2
MaxRun == 3
MaxRewrites == 3

(* Program constants (raid_bus.h enumerations, used at the lines named in  *)
(* the results file).                                                      *)
RAID_INIT == 0
RAID_FORMAT == 1
RAID_READ == 2
RAID_WRITE == 3
RAID_STATUS == 4
RAID_CLOSE == 5
RAID_DISK_UNINITIALIZED == 0
RAID_DISK_READY == 1
RAID_DISK_FAILED == 2
RAID_TRACK_BLOCKS == 2

Disks == 0 .. (RAID_DISKS - 1)

(* Payloads.  A block's content is one value; the code only copies blocks. *)
(* Blank is a formatted block, Lost the content of a failed disk, Indet a  *)
(* block of memory the program never initialised.                          *)
Blank == 0
Lost == 0 - 1
Indet == 0 - 2

(* The timestamp of a freshly malloc'ed cache slot is indeterminate.  The  *)
(* outcomes kept are "older than every timestamp" and "newer than every    *)
(* timestamp".                                                             *)
BigStamp == 1000
GarbageStamps == {0, BigStamp}

----------------------------------------------------------------------------
(* Request codec.  A RAIDOpCode is a 64-bit value, modelled as its 8 bytes *)
(* with the most significant byte first (TLC's integers are 32 bits wide). *)

Zero64 == <<0, 0, 0, 0, 0, 0, 0, 0>>

\* The 4 bytes of a 32-bit value (two's complement for a negative int).
IdBytes(id) ==
    << (id \div 16777216) % 256, (id \div 65536) % 256, (id \div 256) % 256, id % 256 >>

\* create_raid_request: type, blockQuantity and diskNumber are uint8_t, id is uint32_t;
\* op = type; op = op<<8 | blockQuantity; op = op<<8 | diskNumber; op <<= 8; op = op<<32 | id
create_raid_request(type, blockQuantity, diskNumber, id) ==
    << type % 256, blockQuantity % 256, diskNumber % 256, 0 >> \o IdBytes(id)

\* The mutant: the block count is not compared.
extract_raid_response_nocount(resp, operation) ==
    LET id     == SubSeq(resp, 5, 8)
        tempID == SubSeq(operation, 5, 8)
        status == resp[4] % 2
        ret    == IF status = 1 THEN 1
                  ELSE IF resp[3] # operation[3] THEN 1
                  ELSE IF resp[1] # operation[1] THEN 1
                  ELSE IF id # tempID /\ resp[1] # RAID_STATUS THEN 1
                  ELSE 0
    IN  [ret |-> ret, id |-> id]

\* extract_raid_response: 1 on failure, 0 on success; GlobResponse.id is set first.
\*   id     = (resp<<32)>>32            the low 4 bytes
\*   status = (resp<<31)>>63            bit 32, the lowest bit of byte 3
\*   disk   = (0xFF0000000000 & resp)>>40   byte 2
\*   count  = (resp<<8)>>56             byte 1
\*   type   = resp>>56                  byte 0
extract_raid_response(resp, operation) ==
    LET id     == SubSeq(resp, 5, 8)
        tempID == SubSeq(operation, 5, 8)
        status == resp[4] % 2
        ret    == IF status = 1 THEN 1
                  ELSE IF resp[3] # operation[3] THEN 1
                  ELSE IF resp[2] # operation[2] THEN 1
                  ELSE IF resp[1] # operation[1] THEN 1
                  ELSE IF id # tempID /\ resp[1] # RAID_STATUS THEN 1
                  ELSE 0
    IN  [ret |-> ret, id |-> id]

----------------------------------------------------------------------------
(* Events of a call, in order: the physical operations sent to the array   *)
(* and the cache calls.  ok is the validity of a physical response, or the *)
(* hit of a cache get.                                                     *)

Event(op, disk, pos, n, data, ok) ==
    [op |-> op, disk |-> disk, pos |-> pos, n |-> n, data |-> data, ok |-> ok]

Physical == {"INIT", "FORMAT", "READ", "WRITE", "STATUS", "CLOSE"}

Log(s, e) == [s EXCEPT !.trace = Append(s.trace, e)]

----------------------------------------------------------------------------
(* Block cache (raid_cache.c).  s is the record of the program's globals.  *)

Slots(s) == 0 .. (s.glob_max_items - 1)

Min(S) == CHOOSE x \in S : \A y \in S : x <= y

\* The mutant: no slot is ever found to hold the key.
MatchesNone(s, n, dsk, blk) == {}

\* The slots among 0..n-1 that hold the key (dsk, blk).
Matches(s, n, dsk, blk) ==
    {i \in 0 .. (n - 1) : s.cacheArray[i].disk = dsk /\ s.cacheArray[i].block = blk}

\* The mutant: the slot with the largest timestamp is replaced.
NewestPosition(s) ==
    Min({i \in Slots(s) : \A j \in Slots(s) :
            s.cacheArray[i].timestamp >= s.cacheArray[j].timestamp})

\* raid_cache.c:210-219: the first slot with the smallest timestamp.
OldestPosition(s) ==
    Min({i \in Slots(s) : \A j \in Slots(s) :
            s.cacheArray[i].timestamp <= s.cacheArray[j].timestamp})

\* init_raid_cache: a fresh array of slots with the invalid key (-1, -1).  The data
\* and the timestamp of a slot are not set; stamps gives the indeterminate timestamps.
\* objectCount, timea and the counters are not reset.
init_raid_cache(s, max_items, stamps) ==
    [s EXCEPT !.glob_max_items = max_items,
              !.cacheArray = [i \in 0 .. (max_items - 1) |->
                  [data |-> Indet, timestamp |-> stamps[i], disk |-> -1, block |-> -1]]]

\* close_raid_cache: the slots and the array are freed; nothing else changes.
close_raid_cache(s) == [s EXCEPT !.cacheArray = <<>>]

\* The mutant: in a full cache a put of a key that is present leaves its clock as it was.
put_raid_cache_norefresh(s0, dsk, blk, buf) ==
    CHOOSE result \in { (
        LET t  == s.timea + 1
            s1 == Log([s EXCEPT !.timea = t], Event("PUT", dsk, blk, 1, <<buf>>, TRUE))
            entry == [data |-> buf, timestamp |-> t, disk |-> dsk, block |-> blk]
        IN  IF s1.objectCount < s1.glob_max_items
            THEN LET m == Matches(s1, s1.objectCount, dsk, blk)
                 IN  IF m # {}
                     THEN [s1 EXCEPT !.hit = @ + 1, !.insert = @ + 1,
                                     !.cacheArray[Min(m)].data = buf,
                                     !.cacheArray[Min(m)].timestamp = t]
                     ELSE [s1 EXCEPT !.cacheArray[s1.objectCount] = entry,
                                     !.objectCount = @ + 1, !.insert = @ + 1]
            ELSE LET m == Matches(s1, s1.glob_max_items, dsk, blk)
                 IN  IF m # {}
                     THEN [s1 EXCEPT !.hit = @ + 1, !.insert = @ + 1,
                                     !.cacheArray[Min(m)].data = buf]
                     ELSE [s1 EXCEPT !.miss = @ + 1, !.insert = @ + 1,
                                     !.cacheArray[OldestPosition(s1)] = entry]
      ) : s \in {s0} } : TRUE

\* put_raid_cache
put_raid_cache(s0, dsk, blk, buf) ==
    CHOOSE result \in { (
        LET t  == s.timea + 1
            s1 == Log([s EXCEPT !.timea = t], Event("PUT", dsk, blk, 1, <<buf>>, TRUE))
            entry == [data |-> buf, timestamp |-> t, disk |-> dsk, block |-> blk]
        IN  IF s1.objectCount < s1.glob_max_items
            THEN LET m == Matches(s1, s1.objectCount, dsk, blk)
                 IN  IF m # {}
                     THEN [s1 EXCEPT !.hit = @ + 1, !.insert = @ + 1,
                                     !.cacheArray[Min(m)].data = buf,
                                     !.cacheArray[Min(m)].timestamp = t]
                     ELSE [s1 EXCEPT !.cacheArray[s1.objectCount] = entry,
                                     !.objectCount = @ + 1, !.insert = @ + 1]
            ELSE LET m == Matches(s1, s1.glob_max_items, dsk, blk)
                 IN  IF m # {}
                     THEN [s1 EXCEPT !.hit = @ + 1, !.insert = @ + 1,
                                     !.cacheArray[Min(m)].data = buf,
                                     !.cacheArray[Min(m)].timestamp = t]
                     ELSE [s1 EXCEPT !.miss = @ + 1, !.insert = @ + 1,
                                     !.cacheArray[OldestPosition(s1)] = entry]
      ) : s \in {s0} } : TRUE

\* get_raid_cache: [s, found, data]; every slot is compared, used or not.
get_raid_cache(s0, dsk, blk) ==
    CHOOSE result \in { (
        LET t  == s.timea + 1
            s1 == [s EXCEPT !.timea = t, !.get = @ + 1]
            m  == Matches(s1, s1.glob_max_items, dsk, blk)
        IN  IF m # {}
            THEN [s |-> Log([s1 EXCEPT !.hit = @ + 1, !.cacheArray[Min(m)].timestamp = t],
                            Event("GET", dsk, blk, 1, <<s1.cacheArray[Min(m)].data>>, TRUE)),
                  found |-> TRUE, data |-> s1.cacheArray[Min(m)].data]
            ELSE [s |-> Log([s1 EXCEPT !.miss = @ + 1], Event("GET", dsk, blk, 1, <<>>, FALSE)),
                  found |-> FALSE, data |-> Indet]
      ) : s \in {s0} } : TRUE

----------------------------------------------------------------------------
(* The disk array, a collaborator outside the sources: it executes one     *)
(* operation and answers with the request's opcode, the status bit set     *)
(* when it refuses.  A refused operation changes nothing and a refused     *)
(* READ delivers no defined data.  fault forces a refusal.                 *)

BlankDisk == [p \in 0 .. (RAID_DISKBLOCKS - 1) |-> Blank]
LostDisk == [p \in 0 .. (RAID_DISKBLOCKS - 1) |-> Lost]

\* The block id of an opcode as a number; -1 when it is beyond every disk.
IdOf(op) ==
    IF op[5] # 0 \/ op[6] # 0 THEN -1 ELSE op[7] * 256 + op[8]

Refused(op) == [op EXCEPT ![4] = 1]

RaidArray(r, op, data, fault) ==
    LET type == op[1]
        n    == op[2]
        d    == op[3]
        pos  == IdOf(op)
        inRange == d \in Disks /\ n >= 1 /\ pos >= 0 /\ pos + n <= RAID_DISKBLOCKS
        refuse == [raid |-> r, response |-> Refused(op),
                   data |-> [i \in 1 .. Len(data) |-> Indet]]
    IN  IF fault THEN refuse
        ELSE IF type = RAID_INIT \/ type = RAID_CLOSE
             THEN [raid |-> r, response |-> op, data |-> data]
        ELSE IF type = RAID_FORMAT
             THEN IF d \notin Disks THEN refuse
                  ELSE [raid |-> [r EXCEPT !.content[d] = BlankDisk, !.failed = @ \ {d}],
                        response |-> op, data |-> data]
        ELSE IF type = RAID_STATUS
             THEN IF d \notin Disks THEN refuse
                  ELSE [raid |-> r,
                        response |-> SubSeq(op, 1, 4) \o
                            IdBytes(IF d \in r.failed THEN RAID_DISK_FAILED
                                    ELSE RAID_DISK_READY),
                        data |-> data]
        ELSE IF type = RAID_READ
             THEN IF ~inRange THEN refuse
                  ELSE [raid |-> r, response |-> op,
                        data |-> [i \in 1 .. n |-> r.content[d][pos + i - 1]]]
        ELSE IF type = RAID_WRITE
             THEN IF ~inRange \/ Len(data) # n THEN refuse
                  ELSE [raid |-> [r EXCEPT !.content[d] =
                                    [p \in 0 .. (RAID_DISKBLOCKS - 1) |->
                                        IF p >= pos /\ p < pos + n THEN data[p - pos + 1]
                                        ELSE @[p]]],
                        response |-> op, data |-> data]
        ELSE refuse

OpName(type) ==
    CASE type = RAID_INIT -> "INIT" [] type = RAID_FORMAT -> "FORMAT"
      [] type = RAID_READ -> "READ" [] type = RAID_WRITE -> "WRITE"
      [] type = RAID_STATUS -> "STATUS" [] type = RAID_CLOSE -> "CLOSE"
      [] OTHER -> "OTHER"

\* client_raid_bus_request: sends the opcode (and the blocks of a READ or a WRITE),
\* returns the response opcode; the blocks sent back land in buf.
\* The k-th physical operation of a call is refused when k is in s.faults.
client_raid_bus_request(s0, op, buf) ==
    CHOOSE result \in {
        [s |-> Log([s EXCEPT !.raid = a.raid, !.nops = s.nops + 1],
                   Event(OpName(op[1]), op[3], IdOf(op), op[2],
                         IF op[1] = RAID_READ THEN a.data ELSE buf,
                         extract_raid_response(a.response, op).ret = 0)),
         response |-> a.response, buf |-> a.data]
      : a \in {RaidArray(s0.raid, op, buf, (s0.nops + 1) \in s0.faults)}, s \in {s0} } : TRUE

\* A request built, sent and validated at once, as the driver does everywhere but in
\* tagline_read: operation = create_raid_request(..); response = client_raid_bus_request(..);
\* if (extract_raid_response(response, operation)) return 1;
Request(s0, type, blockQuantity, diskNumber, id, buf) ==
    CHOOSE result \in { CHOOSE result2 \in {
        [s |-> [r.s EXCEPT !.GlobResponse = x.id], ret |-> x.ret, buf |-> r.buf,
         operation |-> operation, response |-> r.response]
      : x \in {extract_raid_response(r.response, operation)} } : TRUE
      : r \in {client_raid_bus_request(
                  s0, create_raid_request(type, blockQuantity, diskNumber, id), buf)},
        operation \in {create_raid_request(type, blockQuantity, diskNumber, id)} } : TRUE

----------------------------------------------------------------------------
(* tagline_driver_init and tagline_close                                   *)

NoBlock == [disk |-> -1, diskPosition |-> -1, backupDisk |-> -1, backupDiskPosition |-> -1]

RECURSIVE FormatAll(_, _)
\* tagline_driver.c:144-168: format every disk that is still uninitialized.
FormatAll(s0, currentDisk) ==
    CHOOSE result \in { (
        IF currentDisk >= RAID_DISKS THEN [s |-> s, ret |-> 0]
        ELSE IF s.array[currentDisk].status # RAID_DISK_UNINITIALIZED
             THEN FormatAll(s, currentDisk + 1)
        ELSE CHOOSE result2 \in {
                 IF q.ret # 0 THEN [s |-> q.s, ret |-> 1]
                 ELSE FormatAll([q.s EXCEPT !.array[currentDisk] =
                                     [status |-> RAID_DISK_READY, blocks |-> -1]],
                                currentDisk + 1)
               : q \in {Request(s, RAID_FORMAT, 0, currentDisk, 0, <<>>)} } : TRUE
      ) : s \in {s0} } : TRUE

tagline_driver_init(s0, maxlines, stamps) ==
    CHOOSE result \in {
        IF q.ret # 0 THEN [s |-> q.s, ret |-> 1]
        ELSE FormatAll(q.s, 0)
      : q \in {Request(
                 [init_raid_cache([s0 EXCEPT !.maxtaglines = maxlines],
                                  TAGLINE_CACHE_SIZE, stamps)
                    EXCEPT
                     !.Globtag = [i \in 0 .. (maxlines - 1) |->
                                    [j \in 0 .. (MAX_TAGLINE_BLOCK_NUMBER - 1) |-> NoBlock]],
                     !.tagcounter = [i \in 0 .. (maxlines - 1) |-> 0]],
                 RAID_INIT, RAID_DISKBLOCKS \div RAID_TRACK_BLOCKS + 3,
                 RAID_DISKS, 0, <<>>)} } : TRUE

tagline_close(s0) ==
    CHOOSE result \in {
        IF q.ret # 0 THEN [s |-> q.s, ret |-> 1]
        ELSE [s |-> [close_raid_cache(q.s) EXCEPT !.Globtag = <<>>, !.tagcounter = <<>>],
              ret |-> 0]
      : q \in {Request(s0, RAID_CLOSE, 0, 0, 0, <<>>)} } : TRUE

----------------------------------------------------------------------------
(* tagline_read                                                            *)

RECURSIVE ReadLoopMirror(_, _, _, _, _, _, _, _)
\* The mutant: a block that is not in the cache is read from its mirror copy.
ReadLoopMirror(s0, tag, bnum, blks, buf0, i, operation0, response0) ==
    CHOOSE result \in { (
        IF i >= blks
        THEN [s |-> s, buf |-> buf, operation |-> operation, response |-> response]
        ELSE CHOOSE result2 \in {
               IF g.found
               THEN ReadLoopMirror(g.s, tag, bnum, blks, [buf EXCEPT ![i + 1] = g.data], i + 1,
                             operation, response)
               ELSE CHOOSE result3 \in {
                      ReadLoopMirror(put_raid_cache(r.s, s.Globtag[tag][bnum + i].disk,
                                              s.Globtag[tag][bnum + i].diskPosition, r.buf[1]),
                               tag, bnum, blks, [buf EXCEPT ![i + 1] = r.buf[1]], i + 1,
                               create_raid_request(RAID_READ, 1, s.Globtag[tag][bnum + i].disk,
                                                   s.Globtag[tag][bnum + i].diskPosition),
                               r.response)
                    : r \in {client_raid_bus_request(
                               g.s,
                               create_raid_request(RAID_READ, 1,
                                                   s.Globtag[tag][bnum + i].backupDisk,
                                                   s.Globtag[tag][bnum + i].backupDiskPosition),
                               <<buf[i + 1]>>)} } : TRUE
             : g \in {get_raid_cache(s, s.Globtag[tag][bnum + i].disk,
                                     s.Globtag[tag][bnum + i].diskPosition)} } : TRUE
      ) : s \in {s0}, buf \in {buf0}, operation \in {operation0}, response \in {response0} } : TRUE

RECURSIVE ReadLoop(_, _, _, _, _, _, _, _)
\* tagline_driver.c:197-213; operation and response are those of the last READ sent.
ReadLoop(s0, tag, bnum, blks, buf0, i, operation0, response0) ==
    CHOOSE result \in { (
        IF i >= blks
        THEN [s |-> s, buf |-> buf, operation |-> operation, response |-> response]
        ELSE CHOOSE result2 \in {
               IF g.found
               THEN ReadLoop(g.s, tag, bnum, blks, [buf EXCEPT ![i + 1] = g.data], i + 1,
                             operation, response)
               ELSE CHOOSE result3 \in {
                      ReadLoop(put_raid_cache(r.s, s.Globtag[tag][bnum + i].disk,
                                              s.Globtag[tag][bnum + i].diskPosition, r.buf[1]),
                               tag, bnum, blks, [buf EXCEPT ![i + 1] = r.buf[1]], i + 1,
                               create_raid_request(RAID_READ, 1, s.Globtag[tag][bnum + i].disk,
                                                   s.Globtag[tag][bnum + i].diskPosition),
                               r.response)
                    : r \in {client_raid_bus_request(
                               g.s,
                               create_raid_request(RAID_READ, 1, s.Globtag[tag][bnum + i].disk,
                                                   s.Globtag[tag][bnum + i].diskPosition),
                               <<buf[i + 1]>>)} } : TRUE
             : g \in {get_raid_cache(s, s.Globtag[tag][bnum + i].disk,
                                     s.Globtag[tag][bnum + i].diskPosition)} } : TRUE
      ) : s \in {s0}, buf \in {buf0}, operation \in {operation0}, response \in {response0} } : TRUE

tagline_read(s0, tag, bnum, blks, buf) ==
    CHOOSE result \in { CHOOSE result2 \in {
        [s |-> [r.s EXCEPT !.GlobResponse = x.id], ret |-> x.ret, buf |-> r.buf]
      : x \in {extract_raid_response(r.response, r.operation)} } : TRUE
      : r \in {ReadLoop(s0, tag, bnum, blks, buf, 0, Zero64, Zero64)} } : TRUE

----------------------------------------------------------------------------
(* chooseDisk and tagline_write.  rand() makes the outcome of a call a set *)
(* of results, one for every sequence of draws that lets the loops end.    *)

\* chooseDisk(&disk, &backupDisk, blks); <<>> is a NULL pointer, <<d>> points at d.
\* The result is the set of pairs <<disk, backupDisk>> the loops can end with.
chooseDisk(disk, backupDisk, blks) ==
    IF backupDisk = <<>>
    THEN {<<d, -1>> : d \in Disks \ {disk[1]}}
    ELSE IF disk = <<>>
    THEN {<<-1, b>> : b \in Disks \ {backupDisk[1]}}
    ELSE IF disk[1] # backupDisk[1] THEN {<<disk[1], backupDisk[1]>>}
    ELSE {p \in Disks \X Disks : p[1] # p[2]}

\* tagline_driver.c:343-345: while (disk is one of bad) chooseDisk(&disk, NULL, 1);
ReselectDisk(disk, bad) ==
    IF disk \notin bad THEN {disk}
    ELSE {p[1] : p \in {q \in chooseDisk(<<disk>>, <<>>, 1) : q[1] \notin bad}}

\* The mutant: the mirror's disk is kept whatever disk the primary is on.
ReselectBackupNever(backupDisk, bad) == {backupDisk}

\* tagline_driver.c:413-415: while (backupDisk is one of bad) chooseDisk(NULL, &backupDisk, 1);
ReselectBackup(backupDisk, bad) ==
    IF backupDisk \notin bad THEN {backupDisk}
    ELSE {p[2] : p \in {q \in chooseDisk(<<>>, <<backupDisk>>, 1) : q[2] \notin bad}}

\* Globtag[tag][j]; j = MAX_TAGLINE_BLOCK_NUMBER is read (never written) by the
\* contiguity loop, one entry past the row; the value read there never decides.
TagAt(s, tag, j) ==
    IF j < MAX_TAGLINE_BLOCK_NUMBER THEN s.Globtag[tag][j] ELSE NoBlock

\* buf[k * BLOCK_SIZE], k from 0; a block past the caller's buffer is indeterminate.
BufAt(buf, k) == IF k < Len(buf) THEN buf[k + 1] ELSE Indet

\* The mutant: the whole range is taken to be contiguous on the primary's disk.
BlocksAvailableWhole(s, tag, bnum, blks) == blks

\* tagline_driver.c:268-282, the primary's count.
BlocksAvailable(s, tag, bnum, blks) ==
    IF bnum < s.tagcounter[tag] /\ blks # 1
    THEN 1 + Cardinality({i \in 0 .. (blks - 1) :
            LET localBnum == bnum + i
            IN  /\ TagAt(s, tag, localBnum + 1).disk = TagAt(s, tag, bnum).disk
                /\ TagAt(s, tag, localBnum + 1).diskPosition
                       = TagAt(s, tag, localBnum).diskPosition + 1
                /\ TagAt(s, tag, localBnum + 1).disk # -1
                /\ TagAt(s, tag, bnum + i).diskPosition
                       = TagAt(s, tag, localBnum).diskPosition + i})
    ELSE 1

\* tagline_driver.c:268-282, the mirror's count.
BlocksAvailable2(s, tag, bnum, blks) ==
    IF bnum < s.tagcounter[tag] /\ blks # 1
    THEN 1 + Cardinality({i \in 0 .. (blks - 1) :
            LET localBnum == bnum + i
            IN  /\ TagAt(s, tag, localBnum + 1).backupDisk = TagAt(s, tag, bnum).backupDisk
                /\ TagAt(s, tag, localBnum + 1).backupDiskPosition
                       = TagAt(s, tag, localBnum).backupDiskPosition + 1
                /\ TagAt(s, tag, localBnum + 1).backupDisk # -1
                /\ TagAt(s, tag, bnum + i).backupDiskPosition
                       = TagAt(s, tag, localBnum).backupDiskPosition + i})
    ELSE 1

\* The mutant: a rewrite leaves the cache entries of the primary copies as they were.
PutPrimaryNever(s0, tag, bnum, n, buf, i) == s0

RECURSIVE PutPrimary(_, _, _, _, _, _)
\* for (i = 0; i < n; i++) put_raid_cache(Globtag[tag][bnum+i].disk, ...diskPosition, &buf[i])
PutPrimary(s0, tag, bnum, n, buf, i) ==
    CHOOSE result \in { (
        IF i >= n THEN s
        ELSE PutPrimary(put_raid_cache(s, TagAt(s, tag, bnum + i).disk,
                                       TagAt(s, tag, bnum + i).diskPosition, BufAt(buf, i)),
                        tag, bnum, n, buf, i + 1)
      ) : s \in {s0} } : TRUE

RECURSIVE PutBackup(_, _, _, _, _, _)
\* for (i = 0; i < n; i++) put_raid_cache(Globtag[tag][bnum+i].backupDisk, ...)
PutBackup(s0, tag, bnum, n, buf, i) ==
    CHOOSE result \in { (
        IF i >= n THEN s
        ELSE PutBackup(put_raid_cache(s, TagAt(s, tag, bnum + i).backupDisk,
                                      TagAt(s, tag, bnum + i).backupDiskPosition, BufAt(buf, i)),
                       tag, bnum, n, buf, i + 1)
      ) : s \in {s0} } : TRUE

RECURSIVE PutNew(_, _, _, _, _, _)
\* for (i = 0; i < n; i++) put_raid_cache(disk, first + i, &buf[i])
PutNew(s0, disk, first, n, buf, i) ==
    CHOOSE result \in { (
        IF i >= n THEN s
        ELSE PutNew(put_raid_cache(s, disk, first + i, BufAt(buf, i)), disk, first, n, buf, i + 1)
      ) : s \in {s0} } : TRUE

\* The blocks buf[from], .., buf[from+n-1] sent with a WRITE.
Blocks(buf, from, n) == [k \in 1 .. n |-> BufAt(buf, from + k - 1)]

\* tagline_driver.c:287-302: the whole range in one WRITE to the primary.
WritePrimaryBatch(s0, tag, bnum, blks, buf) ==
    CHOOSE result \in {
        [s |-> q.s, ret |-> q.ret]
      : q \in {Request(PutPrimary(s0, tag, bnum, blks, buf, 0), RAID_WRITE, blks,
                       TagAt(s0, tag, bnum).disk, TagAt(s0, tag, bnum).diskPosition,
                       Blocks(buf, 0, blks))} } : TRUE

\* tagline_driver.c:305-318: the whole range in one WRITE to the mirror.
WriteBackupBatch(s0, tag, bnum, blks, buf) ==
    CHOOSE result \in {
        [s |-> q.s, ret |-> q.ret]
      : q \in {Request(PutBackup(s0, tag, bnum, blks, buf, 0), RAID_WRITE, blks,
                       TagAt(s0, tag, bnum).backupDisk, TagAt(s0, tag, bnum).backupDiskPosition,
                       Blocks(buf, 0, blks))} } : TRUE

RECURSIVE PrimaryTail(_, _, _, _, _, _, _, _)
\* tagline_driver.c:340-388: the blocks after the first blocksAvailable, one by one.
PrimaryTail(s0, tag, bnum, blks, buf, blocksAvailable, i, disk) ==
    UNION { (
        IF i >= blks - blocksAvailable THEN {[s |-> s, ret |-> 0]}
        ELSE UNION { UNION {
               IF b.diskPosition = -1
               THEN UNION {
                      IF q.ret # 0 THEN {[s |-> q.s, ret |-> 1]}
                      ELSE PrimaryTail(
                             [q.s EXCEPT !.Globtag[tag][localBnum].disk = d,
                                         !.array[d].blocks = s.array[d].blocks + 1,
                                         !.Globtag[tag][localBnum].diskPosition =
                                             s.array[d].blocks + 1,
                                         !.tagcounter[tag] = @ + 1],
                             tag, bnum, blks, buf, blocksAvailable, i + 1, d)
                    : q \in {Request(put_raid_cache(s, d, s.array[d].blocks + 1, blk),
                                     RAID_WRITE, 1, d, s.array[d].blocks + 1, <<blk>>)} }
               ELSE UNION {
                      IF q.ret # 0 THEN {[s |-> q.s, ret |-> 1]}
                      ELSE PrimaryTail(q.s, tag, bnum, blks, buf, blocksAvailable, i + 1, d)
                    : q \in {Request(put_raid_cache(s, b.disk, b.diskPosition, blk),
                                     RAID_WRITE, 1, b.disk, b.diskPosition, <<blk>>)} }
               : d \in ReselectDisk(disk, {b.backupDisk, TagAt(s, tag, bnum).backupDisk}) }
             : localBnum \in {bnum + blocksAvailable + i},
               b \in {TagAt(s, tag, bnum + blocksAvailable + i)},
               blk \in {BufAt(buf, blocksAvailable + i)} }
      ) : s \in {s0} }

\* tagline_driver.c:321-389
WritePrimaryPartial(s0, tag, bnum, blks, buf, blocksAvailable, disk) ==
    UNION {
        IF q.ret # 0 THEN {[s |-> q.s, ret |-> 1]}
        ELSE PrimaryTail(q.s, tag, bnum, blks, buf, blocksAvailable, 0, disk)
      : q \in {Request(PutPrimary(s0, tag, bnum, blocksAvailable, buf, 0), RAID_WRITE,
                       blocksAvailable, TagAt(s0, tag, bnum).disk,
                       TagAt(s0, tag, bnum).diskPosition, Blocks(buf, 0, blocksAvailable))} }

RECURSIVE BackupTail(_, _, _, _, _, _, _, _, _)
\* tagline_driver.c:410-453: the cache gets buf[blocksAvailable+i], the WRITE sends
\* buf[blocksAvailable2+i].
BackupTail(s0, tag, bnum, blks, buf, blocksAvailable, blocksAvailable2, i, backupDisk) ==
    UNION { (
        IF i >= blks - blocksAvailable2 THEN {[s |-> s, ret |-> 0]}
        ELSE UNION { UNION {
               IF b.backupDiskPosition = -1
               THEN UNION {
                      IF q.ret # 0 THEN {[s |-> q.s, ret |-> 1]}
                      ELSE BackupTail(
                             [q.s EXCEPT !.Globtag[tag][localBnum].backupDisk = d,
                                         !.array[d].blocks = s.array[d].blocks + 1,
                                         !.Globtag[tag][localBnum].backupDiskPosition =
                                             s.array[d].blocks + 1],
                             tag, bnum, blks, buf, blocksAvailable, blocksAvailable2,
                             i + 1, d)
                    : q \in {Request(put_raid_cache(s, d, s.array[d].blocks + 1, cached),
                                     RAID_WRITE, 1, d, s.array[d].blocks + 1, <<blk>>)} }
               ELSE UNION {
                      IF q.ret # 0 THEN {[s |-> q.s, ret |-> 1]}
                      ELSE BackupTail(q.s, tag, bnum, blks, buf, blocksAvailable,
                                      blocksAvailable2, i + 1, d)
                    : q \in {Request(put_raid_cache(s, b.backupDisk, b.backupDiskPosition,
                                                    cached),
                                     RAID_WRITE, 1, b.backupDisk, b.backupDiskPosition,
                                     <<blk>>)} }
               : d \in ReselectBackup(backupDisk, {b.disk, TagAt(s, tag, bnum).disk}) }
             : localBnum \in {bnum + blocksAvailable2 + i},
               b \in {TagAt(s, tag, bnum + blocksAvailable2 + i)},
               cached \in {BufAt(buf, blocksAvailable + i)},
               blk \in {BufAt(buf, blocksAvailable2 + i)} }
      ) : s \in {s0} }

\* tagline_driver.c:392-454
WriteBackupPartial(s0, tag, bnum, blks, buf, blocksAvailable, blocksAvailable2, backupDisk) ==
    UNION {
        IF q.ret # 0 THEN {[s |-> q.s, ret |-> 1]}
        ELSE BackupTail(q.s, tag, bnum, blks, buf, blocksAvailable, blocksAvailable2, 0,
                        backupDisk)
      : q \in {Request(PutBackup(s0, tag, bnum, blocksAvailable, buf, 0), RAID_WRITE,
                       blocksAvailable2, TagAt(s0, tag, bnum).backupDisk,
                       TagAt(s0, tag, bnum).backupDiskPosition,
                       Blocks(buf, 0, blocksAvailable2))} }

\* tagline_driver.c:285-455, the four blocks of the rewriting branch in order.
Rewrite(s0, tag, bnum, blks, buf, disk, backupDisk) ==
    UNION { UNION { UNION { UNION {
        IF c.ret # 0 THEN {c}
        ELSE IF blocksAvailable2 < blks
             THEN WriteBackupPartial(c.s, tag, bnum, blks, buf, blocksAvailable,
                                     blocksAvailable2, backupDisk)
        ELSE {c}
      : c \in (IF b.ret # 0 THEN {b}
               ELSE IF blocksAvailable < blks
                    THEN WritePrimaryPartial(b.s, tag, bnum, blks, buf, blocksAvailable, disk)
               ELSE {b}) }
      : b \in {IF a.ret # 0 THEN a
               ELSE IF blocksAvailable2 >= blks
                    THEN WriteBackupBatch(a.s, tag, bnum, blks, buf)
               ELSE a} }
      : a \in {IF blocksAvailable >= blks THEN WritePrimaryBatch(s0, tag, bnum, blks, buf)
               ELSE [s |-> s0, ret |-> 0]} }
      : blocksAvailable  \in {BlocksAvailable(s0, tag, bnum, blks)},
        blocksAvailable2 \in {BlocksAvailable2(s0, tag, bnum, blks)} }

\* The mutant: the mirror of an append goes to the primary's disk.
AppendSameDisk(s0, tag, bnum, blks, buf, disk, backupDisk) ==
    CHOOSE result \in { CHOOSE result2 \in {
        IF q1.ret # 0 THEN [s |-> q1.s, ret |-> 1]
        ELSE CHOOSE result3 \in {
               IF q2.ret # 0 THEN [s |-> q2.s, ret |-> 1]
               ELSE [s |-> [q2.s EXCEPT
                       !.tagcounter[tag] = @ + blks,
                       !.array[disk].blocks = @ + blks,
                       !.Globtag[tag] = [j \in DOMAIN @ |->
                           IF j >= bnum /\ j < bnum + blks
                           THEN [disk |-> disk, diskPosition |-> first + (j - bnum),
                                 backupDisk |-> disk,
                                 backupDiskPosition |-> first + (j - bnum)]
                           ELSE @[j]]],
                     ret |-> 0]
             : q2 \in {Request(PutNew(q1.s, disk, first, blks, buf, 0),
                               RAID_WRITE, blks, disk, first, Blocks(buf, 0, blks))} } : TRUE
      : q1 \in {Request(PutNew(s0, disk, first, blks, buf, 0),
                        RAID_WRITE, blks, disk, first, Blocks(buf, 0, blks))} } : TRUE
      : first \in {s0.array[disk].blocks + 1},
        first2 \in {s0.array[backupDisk].blocks + 1} } : TRUE

\* The mutant: the primary's cursor is advanced before the position is recorded.
AppendOffByOne(s0, tag, bnum, blks, buf, disk, backupDisk) ==
    CHOOSE result \in { CHOOSE result2 \in {
        IF q1.ret # 0 THEN [s |-> q1.s, ret |-> 1]
        ELSE CHOOSE result3 \in {
               IF q2.ret # 0 THEN [s |-> q2.s, ret |-> 1]
               ELSE [s |-> [q2.s EXCEPT
                       !.tagcounter[tag] = @ + blks,
                       !.array[disk].blocks = @ + blks,
                       !.array[backupDisk].blocks = @ + blks,
                       !.Globtag[tag] = [j \in DOMAIN @ |->
                           IF j >= bnum /\ j < bnum + blks
                           THEN [disk |-> disk, diskPosition |-> first + (j - bnum) + 1,
                                 backupDisk |-> backupDisk,
                                 backupDiskPosition |-> first2 + (j - bnum)]
                           ELSE @[j]]],
                     ret |-> 0]
             : q2 \in {Request(PutNew(q1.s, backupDisk, first2, blks, buf, 0),
                               RAID_WRITE, blks, backupDisk, first2, Blocks(buf, 0, blks))} } : TRUE
      : q1 \in {Request(PutNew(s0, disk, first, blks, buf, 0),
                        RAID_WRITE, blks, disk, first, Blocks(buf, 0, blks))} } : TRUE
      : first \in {s0.array[disk].blocks + 1},
        first2 \in {s0.array[backupDisk].blocks + 1} } : TRUE

\* The mutant: the response of the primary's WRITE is not looked at.
AppendUnchecked(s0, tag, bnum, blks, buf, disk, backupDisk) ==
    CHOOSE result \in { CHOOSE result2 \in { CHOOSE result3 \in {
        IF q2.ret # 0 THEN [s |-> q2.s, ret |-> 1]
        ELSE [s |-> [q2.s EXCEPT
                !.tagcounter[tag] = @ + blks,
                !.array[disk].blocks = @ + blks,
                !.array[backupDisk].blocks = @ + blks,
                !.Globtag[tag] = [j \in DOMAIN @ |->
                    IF j >= bnum /\ j < bnum + blks
                    THEN [disk |-> disk, diskPosition |-> first + (j - bnum),
                          backupDisk |-> backupDisk,
                          backupDiskPosition |-> first2 + (j - bnum)]
                    ELSE @[j]]],
              ret |-> 0]
      : q2 \in {Request(PutNew(q1.s, backupDisk, first2, blks, buf, 0),
                        RAID_WRITE, blks, backupDisk, first2, Blocks(buf, 0, blks))} } : TRUE
      : q1 \in {Request(PutNew(s0, disk, first, blks, buf, 0),
                        RAID_WRITE, blks, disk, first, Blocks(buf, 0, blks))} } : TRUE
      : first \in {s0.array[disk].blocks + 1},
        first2 \in {s0.array[backupDisk].blocks + 1} } : TRUE

\* The mutant: each cursor is advanced once, whatever the number of blocks.
AppendCursorOnce(s0, tag, bnum, blks, buf, disk, backupDisk) ==
    CHOOSE result \in { CHOOSE result2 \in {
        IF q1.ret # 0 THEN [s |-> q1.s, ret |-> 1]
        ELSE CHOOSE result3 \in {
               IF q2.ret # 0 THEN [s |-> q2.s, ret |-> 1]
               ELSE [s |-> [q2.s EXCEPT
                       !.tagcounter[tag] = @ + blks,
                       !.array[disk].blocks = @ + 1,
                       !.array[backupDisk].blocks = @ + 1,
                       !.Globtag[tag] = [j \in DOMAIN @ |->
                           IF j >= bnum /\ j < bnum + blks
                           THEN [disk |-> disk, diskPosition |-> first + (j - bnum),
                                 backupDisk |-> backupDisk,
                                 backupDiskPosition |-> first2 + (j - bnum)]
                           ELSE @[j]]],
                     ret |-> 0]
             : q2 \in {Request(PutNew(q1.s, backupDisk, first2, blks, buf, 0),
                               RAID_WRITE, blks, backupDisk, first2, Blocks(buf, 0, blks))} } : TRUE
      : q1 \in {Request(PutNew(s0, disk, first, blks, buf, 0),
                        RAID_WRITE, blks, disk, first, Blocks(buf, 0, blks))} } : TRUE
      : first \in {s0.array[disk].blocks + 1},
        first2 \in {s0.array[backupDisk].blocks + 1} } : TRUE

\* The mutant: the mirror disk's cursor is not advanced.
AppendMirrorCursorKept(s0, tag, bnum, blks, buf, disk, backupDisk) ==
    CHOOSE result \in { CHOOSE result2 \in {
        IF q1.ret # 0 THEN [s |-> q1.s, ret |-> 1]
        ELSE CHOOSE result3 \in {
               IF q2.ret # 0 THEN [s |-> q2.s, ret |-> 1]
               ELSE [s |-> [q2.s EXCEPT
                       !.tagcounter[tag] = @ + blks,
                       !.array[disk].blocks = @ + blks,
                       !.Globtag[tag] = [j \in DOMAIN @ |->
                           IF j >= bnum /\ j < bnum + blks
                           THEN [disk |-> disk, diskPosition |-> first + (j - bnum),
                                 backupDisk |-> backupDisk,
                                 backupDiskPosition |-> first2 + (j - bnum)]
                           ELSE @[j]]],
                     ret |-> 0]
             : q2 \in {Request(PutNew(q1.s, backupDisk, first2, blks, buf, 0),
                               RAID_WRITE, blks, backupDisk, first2, Blocks(buf, 0, blks))} } : TRUE
      : q1 \in {Request(PutNew(s0, disk, first, blks, buf, 0),
                        RAID_WRITE, blks, disk, first, Blocks(buf, 0, blks))} } : TRUE
      : first \in {s0.array[disk].blocks + 1},
        first2 \in {s0.array[backupDisk].blocks + 1} } : TRUE

\* The mutant: the primary disk's cursor is advanced before the mirror WRITE is validated.
AppendRecordEarly(s0, tag, bnum, blks, buf, disk, backupDisk) ==
    CHOOSE result \in { CHOOSE result2 \in {
        IF q1.ret # 0 THEN [s |-> q1.s, ret |-> 1]
        ELSE CHOOSE result3 \in {
               IF q2.ret # 0
               THEN [s |-> [q2.s EXCEPT !.array[disk].blocks = @ + blks], ret |-> 1]
               ELSE [s |-> [q2.s EXCEPT
                       !.tagcounter[tag] = @ + blks,
                       !.array[disk].blocks = @ + blks,
                       !.array[backupDisk].blocks = @ + blks,
                       !.Globtag[tag] = [j \in DOMAIN @ |->
                           IF j >= bnum /\ j < bnum + blks
                           THEN [disk |-> disk, diskPosition |-> first + (j - bnum),
                                 backupDisk |-> backupDisk,
                                 backupDiskPosition |-> first2 + (j - bnum)]
                           ELSE @[j]]],
                     ret |-> 0]
             : q2 \in {Request(PutNew(q1.s, backupDisk, first2, blks, buf, 0),
                               RAID_WRITE, blks, backupDisk, first2, Blocks(buf, 0, blks))} } : TRUE
      : q1 \in {Request(PutNew(s0, disk, first, blks, buf, 0),
                        RAID_WRITE, blks, disk, first, Blocks(buf, 0, blks))} } : TRUE
      : first \in {s0.array[disk].blocks + 1},
        first2 \in {s0.array[backupDisk].blocks + 1} } : TRUE

\* tagline_driver.c:458-506: both copies at the end of their disks.
AppendBlocks(s0, tag, bnum, blks, buf, disk, backupDisk) ==
    CHOOSE result \in { CHOOSE result2 \in {
        IF q1.ret # 0 THEN [s |-> q1.s, ret |-> 1]
        ELSE CHOOSE result3 \in {
               IF q2.ret # 0 THEN [s |-> q2.s, ret |-> 1]
               ELSE [s |-> [q2.s EXCEPT
                       !.tagcounter[tag] = @ + blks,
                       !.array[disk].blocks = @ + blks,
                       !.array[backupDisk].blocks = @ + blks,
                       !.Globtag[tag] = [j \in DOMAIN @ |->
                           IF j >= bnum /\ j < bnum + blks
                           THEN [disk |-> disk, diskPosition |-> first + (j - bnum),
                                 backupDisk |-> backupDisk,
                                 backupDiskPosition |-> first2 + (j - bnum)]
                           ELSE @[j]]],
                     ret |-> 0]
             : q2 \in {Request(PutNew(q1.s, backupDisk, first2, blks, buf, 0),
                               RAID_WRITE, blks, backupDisk, first2, Blocks(buf, 0, blks))} } : TRUE
      : q1 \in {Request(PutNew(s0, disk, first, blks, buf, 0),
                        RAID_WRITE, blks, disk, first, Blocks(buf, 0, blks))} } : TRUE
      : first \in {s0.array[disk].blocks + 1},
        first2 \in {s0.array[backupDisk].blocks + 1} } : TRUE

\* tagline_write: the set of results [s, ret] over the draws of rand().
tagline_write(s0, tag, bnum, blks, buf) ==
    UNION { (
        UNION { UNION { IF bnum < s.tagcounter[tag]
                        THEN Rewrite(s, tag, bnum, blks, buf, p[1], p[2])
                        ELSE {AppendBlocks(s, tag, bnum, blks, buf, p[1], p[2])}
                        : p \in chooseDisk(<<r[1]>>, <<r[2]>>, blks) }
                : r \in Disks \X Disks }
      ) : s \in {s0} }

----------------------------------------------------------------------------
(* raid_disk_recover and raid_disk_signal                                  *)

\* tagline_driver.c:639-670: the primary copy of block b is on the failed disk.
RecoverPrimary(s0, b, tempbuf0, operation0, response0) ==
    CHOOSE result \in { (
        IF g.found
        THEN CHOOSE result2 \in {
               IF x.ret # 0
               THEN [s |-> [g.s EXCEPT !.GlobResponse = x.id], ret |-> 1,
                     tempbuf |-> g.data, operation |-> operation0, response |-> response0]
               ELSE CHOOSE result3 \in {
                      [s |-> q.s, ret |-> q.ret, tempbuf |-> g.data,
                       operation |-> q.operation, response |-> q.response]
                    : q \in {Request([g.s EXCEPT !.GlobResponse = x.id], RAID_WRITE, 1,
                                     b.disk, b.diskPosition, <<g.data>>)} } : TRUE
             : x \in {extract_raid_response(response0, operation0)} } : TRUE
        ELSE CHOOSE result2 \in { CHOOSE result3 \in {
               IF x.ret # 0
               THEN [s |-> [s1 EXCEPT !.GlobResponse = x.id], ret |-> 1,
                     tempbuf |-> r.buf[1], operation |-> operation0, response |-> response0]
               ELSE CHOOSE result4 \in {
                      [s |-> q.s, ret |-> q.ret, tempbuf |-> r.buf[1],
                       operation |-> q.operation, response |-> q.response]
                    : q \in {Request([s1 EXCEPT !.GlobResponse = x.id], RAID_WRITE, 1,
                                     b.disk, b.diskPosition, r.buf)} } : TRUE
             : x \in {extract_raid_response(
                        r.response,
                        create_raid_request(RAID_READ, 1, b.backupDisk, b.backupDiskPosition))},
               s1 \in {put_raid_cache(r.s, b.disk, b.diskPosition, r.buf[1])} } : TRUE
             : r \in {client_raid_bus_request(
                        g.s,
                        create_raid_request(RAID_READ, 1, b.backupDisk, b.backupDiskPosition),
                        <<tempbuf0>>)} } : TRUE
      ) : g \in {get_raid_cache(s0, b.disk, b.diskPosition)} } : TRUE

\* The mutant: the block read from the primary is written over the primary.
RecoverBackupToPrimary(s0, b, tempbuf, operation, response) ==
    CHOOSE result \in {
        IF q1.ret # 0
        THEN [s |-> q1.s, ret |-> 1, tempbuf |-> q1.buf[1],
              operation |-> q1.operation, response |-> q1.response]
        ELSE CHOOSE result2 \in {
               [s |-> q2.s, ret |-> q2.ret, tempbuf |-> q1.buf[1],
                operation |-> q2.operation, response |-> q2.response]
             : q2 \in {Request(q1.s, RAID_WRITE, 1, b.disk, b.diskPosition, q1.buf)} } : TRUE
      : q1 \in {Request(s0, RAID_READ, 1, b.disk, b.diskPosition, <<tempbuf>>)} } : TRUE

\* tagline_driver.c:671-688: the mirror copy of block b is on the failed disk.
RecoverBackup(s0, b, tempbuf, operation, response) ==
    CHOOSE result \in {
        IF q1.ret # 0
        THEN [s |-> q1.s, ret |-> 1, tempbuf |-> q1.buf[1],
              operation |-> q1.operation, response |-> q1.response]
        ELSE CHOOSE result2 \in {
               [s |-> q2.s, ret |-> q2.ret, tempbuf |-> q1.buf[1],
                operation |-> q2.operation, response |-> q2.response]
             : q2 \in {Request(q1.s, RAID_WRITE, 1, b.backupDisk, b.backupDiskPosition,
                               q1.buf)} } : TRUE
      : q1 \in {Request(s0, RAID_READ, 1, b.disk, b.diskPosition, <<tempbuf>>)} } : TRUE

RECURSIVE RecoverScan(_, _, _, _, _, _, _)
\* tagline_driver.c:635-700: every block below the tagline's counter, then Ready.
RecoverScan(s0, disk, i, j, tempbuf0, operation0, response0) ==
    CHOOSE result \in { (
        IF i >= s.maxtaglines
        THEN [s |-> [s EXCEPT !.array[disk].status = RAID_DISK_READY], ret |-> 0]
        ELSE IF j >= s.tagcounter[i]
        THEN RecoverScan(s, disk, i + 1, 0, tempbuf, operation, response)
        ELSE CHOOSE result2 \in { CHOOSE result3 \in { CHOOSE result4 \in {
               IF m.ret # 0 THEN [s |-> m.s, ret |-> 1]
               ELSE RecoverScan(m.s, disk, i, j + 1, m.tempbuf, m.operation, m.response)
             : m \in {IF p.ret = 0 /\ b.backupDisk = disk
                      THEN RecoverBackup(p.s, b, p.tempbuf, p.operation, p.response)
                      ELSE p} } : TRUE
             : p \in {IF b.disk = disk
                      THEN RecoverPrimary(s, b, tempbuf, operation, response)
                      ELSE [s |-> s, ret |-> 0, tempbuf |-> tempbuf,
                            operation |-> operation, response |-> response]} } : TRUE
             : b \in {TagAt(s, i, j)} } : TRUE
      ) : s \in {s0}, tempbuf \in {tempbuf0}, operation \in {operation0}, response \in {response0} } : TRUE

\* The mutant: the reformat resets the disk's allocation cursor.
raid_disk_recover_reset(s0, disk) ==
    CHOOSE result \in {
        IF q.ret # 0 THEN [s |-> q.s, ret |-> 1]
        ELSE RecoverScan([q.s EXCEPT !.array[disk].blocks = -1], disk, 0, 0, Blank,
                         q.operation, q.response)
      : q \in {Request(s0, RAID_FORMAT, 0, disk, 0, <<>>)} } : TRUE

\* The mutant: a recovery that stops at the FORMAT marks the disk Ready.
raid_disk_recover_ready(s0, disk) ==
    CHOOSE result \in {
        IF q.ret # 0
        THEN [s |-> [q.s EXCEPT !.array[disk].status = RAID_DISK_READY], ret |-> 1]
        ELSE RecoverScan(q.s, disk, 0, 0, Blank, q.operation, q.response)
      : q \in {Request(s0, RAID_FORMAT, 0, disk, 0, <<>>)} } : TRUE

\* raid_disk_recover: tempbuf is one calloc'ed (zeroed) block.
raid_disk_recover(s0, disk) ==
    CHOOSE result \in {
        IF q.ret # 0 THEN [s |-> q.s, ret |-> 1]
        ELSE RecoverScan(q.s, disk, 0, 0, Blank, q.operation, q.response)
      : q \in {Request(s0, RAID_FORMAT, 0, disk, 0, <<>>)} } : TRUE

RECURSIVE SignalLoop(_, _)
\* tagline_driver.c:580-600; the value raid_disk_recover returns is not looked at.
\* The RECOVER event records it.
SignalLoop(s0, disk) ==
    CHOOSE result \in { (
        IF disk >= RAID_DISKS THEN [s |-> s, ret |-> 0]
        ELSE CHOOSE result2 \in {
               IF q.ret # 0 THEN [s |-> q.s, ret |-> 1]
               ELSE IF q.s.GlobResponse = IdBytes(RAID_DISK_FAILED)
               THEN CHOOSE result3 \in {
                      SignalLoop(Log(r.s, Event("RECOVER", disk, -1, 0, <<>>, r.ret = 0)),
                                 disk + 1)
                    : r \in {raid_disk_recover(
                               [q.s EXCEPT !.array[disk].status = RAID_DISK_FAILED], disk)} } : TRUE
               ELSE SignalLoop(q.s, disk + 1)
             : q \in {Request(s, RAID_STATUS, 0, disk, 0, <<>>)} } : TRUE
      ) : s \in {s0} } : TRUE

raid_disk_signal(s) == SignalLoop(s, 0)

----------------------------------------------------------------------------
(* The state machine: one action per driver call.                          *)

\* The program's globals and the array as one record, with the events of the call
\* that is starting; faults are the physical operations the array will refuse.
State(faults) ==
    [maxtaglines |-> maxtaglines, tagcounter |-> tagcounter, array |-> array,
     Globtag |-> Globtag, GlobResponse |-> GlobResponse,
     glob_max_items |-> glob_max_items, objectCount |-> objectCount, hit |-> hit,
     miss |-> miss, insert |-> insert, get |-> get, timea |-> timea,
     cacheArray |-> cacheArray, raid |-> raid,
     trace |-> <<>>, nops |-> 0, faults |-> faults]

Commit(s) ==
    /\ maxtaglines' = s.maxtaglines
    /\ tagcounter' = s.tagcounter
    /\ array' = s.array
    /\ Globtag' = s.Globtag
    /\ GlobResponse' = s.GlobResponse
    /\ glob_max_items' = s.glob_max_items
    /\ objectCount' = s.objectCount
    /\ hit' = s.hit
    /\ miss' = s.miss
    /\ insert' = s.insert
    /\ get' = s.get
    /\ timea' = s.timea
    /\ cacheArray' = s.cacheArray
    /\ raid' = s.raid

\* What a call leaves for the properties: its arguments, its result, the events it
\* caused and the placement state and array content it started from.
CallRecord(name, tag, bnum, blks, buf, faults, failed, before, o, out) ==
    [name |-> name, tag |-> tag, bnum |-> bnum, blks |-> blks, buf |-> buf,
     faults |-> faults, failed |-> failed, ret |-> o.ret, out |-> out,
     trace |-> o.s.trace,
     pre |-> [Globtag |-> before.Globtag, tagcounter |-> before.tagcounter,
              array |-> before.array, content |-> before.raid.content,
              hit |-> before.hit, cacheArray |-> before.cacheArray,
              down |-> before.raid.failed]]

NoCall ==
    [name |-> "none", tag |-> -1, bnum |-> -1, blks |-> 0, buf |-> <<>>,
     faults |-> {}, failed |-> {}, ret |-> 0, out |-> <<>>, trace |-> <<>>,
     pre |-> [Globtag |-> <<>>, tagcounter |-> <<>>, array |-> <<>>, content |-> <<>>,
              hit |-> 0, cacheArray |-> <<>>, down |-> {}]]

\* What is kept of the call before the last one.
Summary(c) ==
    [name |-> c.name, tag |-> c.tag, bnum |-> c.bnum, blks |-> c.blks, buf |-> c.buf,
     ret |-> c.ret,
     rewritting |-> c.name = "write" /\ c.bnum < c.pre.tagcounter[c.tag]]

\* The fault sets a call may meet: none, or (while the budget lasts) one refused
\* physical operation among the first k.
FaultSets(k) ==
    {{}} \cup (IF budget.faults > 0 THEN {{f} : f \in 1 .. k} ELSE {})

\* A fault that was drawn was met by the call.
Met(faults, s) == \A f \in faults : f <= s.nops

Spend(kind, faults) ==
    budget' = [budget EXCEPT ![kind] = @ - 1, !.faults = @ - Cardinality(faults)]

\* The blocks the k-th write of a run sends: every block of a run is different.
Payload(k, blks) == [i \in 1 .. blks |-> 10 * k + i]

\* What the array has been sent in a session: the first and the last operation, the
\* disks formatted, the disks read or written before their FORMAT, and whether anything
\* followed a CLOSE the array accepted.
NoWire == [first |-> "none", last |-> "none", accepted |-> FALSE, formatted |-> {},
           unformatted |-> {}, afterClose |-> FALSE]

RECURSIVE Sent(_, _, _)
\* The operations of a call's events, from the k-th on, added to w.
Sent(w, trace, k) ==
    IF k > Len(trace) THEN w
    ELSE IF trace[k].op \notin Physical THEN Sent(w, trace, k + 1)
    ELSE Sent([first |-> IF w.first = "none" THEN trace[k].op ELSE w.first,
               last |-> trace[k].op,
               accepted |-> trace[k].ok,
               formatted |-> IF trace[k].op = "FORMAT"
                             THEN w.formatted \cup {trace[k].disk} ELSE w.formatted,
               unformatted |-> IF trace[k].op \in {"READ", "WRITE"}
                                  /\ trace[k].disk \notin w.formatted
                               THEN w.unformatted \cup {trace[k].disk} ELSE w.unformatted,
               afterClose |-> w.afterClose \/ (w.last = "CLOSE" /\ w.accepted)],
              trace, k + 1)

\* No logical address has been written: tagline_driver_init maps every block nowhere.
NoneWritten ==
    [a \in (0 .. (MaxLines - 1)) \X (0 .. (MAX_TAGLINE_BLOCK_NUMBER - 1)) |-> Blank]

\* What the blocks of a tagline hold after tagline_write(tag, bnum, blks, buf) returned
\* ret: the blocks given, or nothing that can be told when the call failed.
Record(w, tag, bnum, blks, buf, ret) ==
    [a \in DOMAIN w |->
        IF a[1] = tag /\ a[2] >= bnum /\ a[2] < bnum + blks
        THEN (IF ret = 0 THEN buf[a[2] - bnum + 1] ELSE Indet)
        ELSE w[a]]

\* The state of the process before the first call (the globals' initialisers); b is
\* what the run may call.
Start(b) ==
    /\ maxtaglines = 1
    /\ tagcounter = <<>>
    /\ array = [d \in Disks |-> [status |-> RAID_DISK_UNINITIALIZED, blocks |-> 0]]
    /\ Globtag = <<>>
    /\ GlobResponse = <<0, 0, 0, 0>>
    /\ glob_max_items = 0
    /\ objectCount = 0
    /\ hit = 0
    /\ miss = 0
    /\ insert = 0
    /\ get = 0
    /\ timea = 0
    /\ cacheArray = <<>>
    /\ raid = [content |-> [d \in Disks |-> LostDisk], failed |-> {}]
    /\ call = NoCall
    /\ prev = Summary(NoCall)
    /\ session = "closed"
    /\ budget = b
    /\ wire = NoWire
    /\ written = NoneWritten

Budget(lines, writes, reads, signals, sessions, faults) ==
    [lines |-> lines, writes |-> writes, reads |-> reads, signals |-> signals,
     sessions |-> sessions, faults |-> faults, blks |-> MaxBlks]

Init == Start(Budget(MaxLines, MaxWrites, MaxReads, 0, MaxSessions, 0))

\* tagline_driver_init(budget.lines).  Only the timestamps of the slots below the stale
\* objectCount can be read before they are written.
DriverInit ==
    /\ session = "closed"
    /\ budget.sessions > 0
    /\ \E faults \in FaultSets(1 + RAID_DISKS) :
       \E stamps \in [0 .. (TAGLINE_CACHE_SIZE - 1) -> GarbageStamps] :
          /\ \A i \in DOMAIN stamps : i >= objectCount => stamps[i] = 0
          /\ \E o \in {tagline_driver_init(State(faults), budget.lines, stamps)} :
                 /\ Met(faults, o.s)
                 /\ Commit(o.s)
                 /\ call' = CallRecord("init", -1, -1, 0, <<>>, faults, {}, State(faults),
                                       o, <<>>)
                 /\ session' = IF o.ret = 0 THEN "open" ELSE "closed"
                 /\ wire' = Sent(NoWire, o.s.trace, 1)
                 /\ written' = NoneWritten
                 /\ Spend("sessions", faults)
    /\ prev' = Summary(call)

\* tagline_close()
DriverClose ==
    /\ session = "open"
    /\ \E faults \in FaultSets(1) :
          \E o \in {tagline_close(State(faults))} :
              /\ Met(faults, o.s)
              /\ Commit(o.s)
              /\ call' = CallRecord("close", -1, -1, 0, <<>>, faults, {}, State(faults),
                                    o, <<>>)
              /\ session' = IF o.ret = 0 THEN "closed" ELSE "open"
              /\ wire' = Sent(wire, o.s.trace, 1)
              /\ budget' = [budget EXCEPT !.faults = @ - Cardinality(faults)]
              /\ UNCHANGED written
    /\ prev' = Summary(call)

\* tagline_write(tag, bnum, blks, buf)
Write ==
    /\ session = "open"
    /\ budget.writes > 0
    /\ \E tag \in 0 .. (maxtaglines - 1), bnum \in 0 .. (MAX_TAGLINE_BLOCK_NUMBER - 1),
          blks \in 1 .. budget.blks :
       \E faults \in FaultSets(2 * blks) :
          /\ bnum + blks <= MAX_TAGLINE_BLOCK_NUMBER
          /\ LET buf == Payload(MaxRewrites - budget.writes + 1, blks)
             IN  \E o \in tagline_write(State(faults), tag, bnum, blks, buf) :
                    /\ Met(faults, o.s)
                    /\ Commit(o.s)
                    /\ call' = CallRecord("write", tag, bnum, blks, buf, faults, {},
                                          State(faults), o, <<>>)
                    /\ wire' = Sent(wire, o.s.trace, 1)
                    /\ written' = Record(written, tag, bnum, blks, buf, o.ret)
          /\ Spend("writes", faults)
    /\ prev' = Summary(call)
    /\ UNCHANGED session

\* tagline_read(tag, bnum, blks, buf); the caller's buffer starts indeterminate.
Read ==
    /\ session = "open"
    /\ budget.reads > 0
    /\ \E tag \in 0 .. (maxtaglines - 1), bnum \in 0 .. (MAX_TAGLINE_BLOCK_NUMBER - 1),
          blks \in 1 .. budget.blks :
       \E faults \in FaultSets(blks) :
          /\ bnum + blks <= MAX_TAGLINE_BLOCK_NUMBER
          /\ \E o \in {tagline_read(State(faults), tag, bnum, blks,
                                      [i \in 1 .. blks |-> Indet])} :
                 /\ Met(faults, o.s)
                 /\ Commit(o.s)
                 /\ call' = CallRecord("read", tag, bnum, blks, <<>>, faults, {},
                                       State(faults), o, o.buf)
                 /\ wire' = Sent(wire, o.s.trace, 1)
                 /\ UNCHANGED written
          /\ Spend("reads", faults)
    /\ prev' = Summary(call)
    /\ UNCHANGED session

\* Disks of the array fail (at most one at a time) and raid_disk_signal() is called.
Signal ==
    /\ session = "open"
    /\ budget.signals > 0
    /\ \E failed \in {{}} \cup (IF raid.failed = {} THEN {{d} : d \in Disks} ELSE {}) :
       \E faults \in FaultSets(RAID_DISKS + 1 + 2 * MaxLines * MAX_TAGLINE_BLOCK_NUMBER) :
          LET before == [State(faults) EXCEPT
                           !.raid.failed = @ \cup failed,
                           !.raid.content = [d \in Disks |->
                               IF d \in failed THEN LostDisk ELSE @[d]]]
          IN  \E o \in {raid_disk_signal(before)} :
              /\ Met(faults, o.s)
              /\ Commit(o.s)
              /\ call' = CallRecord("signal", -1, -1, 0, <<>>, faults, failed,
                                    State(faults), o, <<>>)
              /\ wire' = Sent(wire, o.s.trace, 1)
              /\ UNCHANGED written
              /\ Spend("signals", faults)
    /\ prev' = Summary(call)
    /\ UNCHANGED session

\* Writes and reads on a healthy array, the driver closed and started again.
Next == DriverInit \/ DriverClose \/ Write \/ Read

Spec == Init /\ [][Next]_vars

\* Writes, then disk failures and their recovery, on an array that refuses nothing.
InitRecover == Start(Budget(MaxLines, MaxWrites, 0, MaxSignals, 1, 0))

NextRecover == DriverInit \/ Write \/ Signal

SpecRecover == InitRecover /\ [][NextRecover]_vars

\* Writes and reads on an array that refuses up to MaxFaults operations.
InitFault == Start(Budget(1, MaxWrites, MaxReads, 0, 1, MaxFaults))

NextFault == DriverInit \/ DriverClose \/ Write \/ Read

SpecFault == InitFault /\ [][NextFault]_vars

\* Writes and recoveries on an array that refuses up to MaxFaults operations.
InitSignalFault == Start(Budget(1, MaxWrites, 0, MaxSignals, 1, MaxFaults))

NextSignalFault == DriverInit \/ DriverClose \/ Write \/ Signal

SpecSignalFault == InitSignalFault /\ [][NextSignalFault]_vars

\* Writes, reads and recoveries on one tagline, on an array that refuses nothing.
InitMixed == Start(Budget(1, MaxWrites, MaxReads, MaxSignals, 1, 0))

NextMixed == DriverInit \/ Write \/ Read \/ Signal

SpecMixed == InitMixed /\ [][NextMixed]_vars

\* Up to MaxRewrites writes of up to MaxRun blocks to one tagline, on an array that
\* refuses nothing.
InitRun == Start([Budget(1, MaxRewrites, 0, 0, 1, 0) EXCEPT !.blks = MaxRun])

NextRun == DriverInit \/ Write

SpecRun == InitRun /\ [][NextRun]_vars

----------------------------------------------------------------------------
(* The block cache on its own: raid_cache.c called directly.               *)

\* The keys the cache is called with.
CacheKeys == (0 .. 1) \X (0 .. 1)

\* The keys get_raid_cache is called with: those, and the key (-1, -1) the driver passes
\* for a block that has no mapping (tagline_driver.c:200 with Globtag's initial -1).
GetKeys == CacheKeys \cup {<<-1, -1>>}

\* The keys held by the slots of a cache array; (-1, -1) marks an unused slot.
KeysOf(ca) == {<<ca[i].disk, ca[i].block>> : i \in DOMAIN ca} \ {<<-1, -1>>}

\* What a cache call leaves for the properties.  live is the caller's account of the
\* cache before the call: the pairs <<key, payload>> of the last put of every key put
\* since init_raid_cache and not replaced since.
CacheCall(name, key, buf, before, after, found, data, live) ==
    [name |-> name, disk |-> key[1], block |-> key[2], buf |-> buf, found |-> found,
     data |-> data,
     pre |-> [cacheArray |-> before.cacheArray, objectCount |-> before.objectCount,
              hit |-> before.hit, miss |-> before.miss, timea |-> before.timea,
              live |-> live],
     evicted |-> KeysOf(before.cacheArray) \ KeysOf(after.cacheArray),
     live |-> {p \in live : /\ p[1] \notin KeysOf(before.cacheArray) \ KeysOf(after.cacheArray)
                            /\ ~(name = "put" /\ p[1] = key)}
              \cup (IF name = "put" THEN {<<key, buf>>} ELSE {})]

\* What is kept of the cache call before the last one.
CacheSummary(c) ==
    IF c.name \in {"put", "get"}
    THEN [name |-> c.name, disk |-> c.disk, block |-> c.block, evicted |-> c.evicted]
    ELSE [name |-> c.name, disk |-> -1, block |-> -1, evicted |-> {}]

InitCache == Start([sessions |-> MaxSessions, cacheops |-> MaxCacheOps])

\* init_raid_cache(TAGLINE_CACHE_SIZE)
CacheInit ==
    /\ session = "closed"
    /\ budget.sessions > 0
    /\ \E stamps \in [0 .. (TAGLINE_CACHE_SIZE - 1) -> GarbageStamps] :
          /\ \A i \in DOMAIN stamps : i >= objectCount => stamps[i] = 0
          /\ \E s \in {init_raid_cache(State({}), TAGLINE_CACHE_SIZE, stamps)} :
                 /\ Commit(s)
                 /\ call' = CacheCall("cache_init", <<-1, -1>>, Indet, State({}), s,
                                      FALSE, Indet, {})
    /\ session' = "open"
    /\ budget' = [budget EXCEPT !.sessions = @ - 1]
    /\ prev' = CacheSummary(call)
    /\ UNCHANGED <<wire, written>>

\* close_raid_cache()
CacheClose ==
    /\ session = "open"
    /\ \E s \in {close_raid_cache(State({}))} :
          /\ Commit(s)
          /\ call' = CacheCall("cache_close", <<-1, -1>>, Indet, State({}), s, FALSE, Indet,
                              {})
    /\ session' = "closed"
    /\ prev' = CacheSummary(call)
    /\ UNCHANGED <<budget, wire, written>>

\* put_raid_cache(dsk, blk, buf); every put of a run carries a different block.
CachePut ==
    /\ session = "open"
    /\ budget.cacheops > 0
    /\ \E key \in CacheKeys :
       \E buf \in {10 + budget.cacheops} :
       \E s \in {put_raid_cache(State({}), key[1], key[2], buf)} :
          /\ Commit(s)
          /\ call' = CacheCall("put", key, buf, State({}), s, FALSE, Indet, call.live)
    /\ budget' = [budget EXCEPT !.cacheops = @ - 1]
    /\ prev' = CacheSummary(call)
    /\ UNCHANGED <<session, wire, written>>

\* get_raid_cache(dsk, blk)
CacheGet ==
    /\ session = "open"
    /\ budget.cacheops > 0
    /\ \E key \in GetKeys :
       \E g \in {get_raid_cache(State({}), key[1], key[2])} :
          /\ Commit(g.s)
          /\ call' = CacheCall("get", key, Indet, State({}), g.s, g.found, g.data,
                              call.live)
    /\ budget' = [budget EXCEPT !.cacheops = @ - 1]
    /\ prev' = CacheSummary(call)
    /\ UNCHANGED <<session, wire, written>>

NextCache == CacheInit \/ CacheClose \/ CachePut \/ CacheGet

SpecCache == InitCache /\ [][NextCache]_vars

----------------------------------------------------------------------------
(* The request codec on its own: a request is built, the array answers     *)
(* with some opcode, the answer is validated against the request.          *)

\* The block ids requests are built with.
CodecIds == {0, 1, 258}

\* The answers tried for a request: every byte of the request kept or changed.
Responses(op) ==
    {<<type, count, disk, flags, hi, op[6], op[7], lo>> :
        type \in {op[1], (op[1] + 1) % (RAID_CLOSE + 1), RAID_STATUS},
        count \in {op[2], (op[2] + 1) % (MaxByte + 1)},
        disk \in {op[3], (op[3] + 1) % (MaxByte + 1)},
        flags \in 0 .. 2,
        hi \in {op[5], op[5] + 1},
        lo \in {op[8], op[8] + 1}}

InitCodec == Start([codec |-> 0])

\* operation = create_raid_request(type, blockQuantity, diskNumber, id)
Encode ==
    /\ \E type \in RAID_INIT .. RAID_CLOSE, blockQuantity \in 0 .. MaxByte,
          diskNumber \in 0 .. MaxByte, id \in CodecIds :
          call' = [name |-> "encode", type |-> type, blockQuantity |-> blockQuantity,
                   diskNumber |-> diskNumber, id |-> id,
                   operation |-> create_raid_request(type, blockQuantity, diskNumber, id),
                   response |-> Zero64, ret |-> 0]
    /\ UNCHANGED <<maxtaglines, tagcounter, array, Globtag, GlobResponse, glob_max_items,
                   objectCount, hit, miss, insert, get, timea, cacheArray, raid, prev,
                   session, budget, wire, written>>

\* extract_raid_response(response, operation) on an answer to the last request.
Decode ==
    /\ call.name \in {"encode", "decode"}
    /\ \E response \in Responses(call.operation) :
       \E x \in {extract_raid_response(response, call.operation)} :
          /\ call' = [call EXCEPT !.name = "decode", !.response = response, !.ret = x.ret]
          /\ GlobResponse' = x.id
    /\ UNCHANGED <<maxtaglines, tagcounter, array, Globtag, glob_max_items,
                   objectCount, hit, miss, insert, get, timea, cacheArray, raid, prev,
                   session, budget, wire, written>>

NextCodec == Encode \/ Decode

SpecCodec == InitCodec /\ [][NextCodec]_vars

----------------------------------------------------------------------------
(* Properties                                                              *)

\* The last call is a read of exactly the range the call before it wrote.
ReadsBackWrite ==
    /\ call.name = "read"
    /\ prev.name = "write"
    /\ prev.ret = 0
    /\ call.tag = prev.tag
    /\ call.bnum = prev.bnum
    /\ call.blks = prev.blks

\* C1: round trip.  After a successful write of N blocks D at a fresh range (start
\* block not below the tagline's usage count), a read of the same (tagline, start, N)
\* succeeds and returns D, block for block.
C1_RoundTrip ==
    (ReadsBackWrite /\ ~prev.rewritting) => (call.ret = 0 /\ call.out = prev.buf)

\* A two-block round trip whose blocks had left the cache and came from the array.
C1_Witness ==
    /\ ReadsBackWrite
    /\ ~prev.rewritting
    /\ call.blks = 2
    /\ call.out = prev.buf
    /\ \E k \in DOMAIN call.trace : call.trace[k].op = "READ"

\* The blocks of the mapping that have been written: both copies are placed.
Written ==
    {a \in (DOMAIN Globtag) \X (0 .. (MAX_TAGLINE_BLOCK_NUMBER - 1)) :
        /\ Globtag[a[1]][a[2]].disk # -1
        /\ Globtag[a[1]][a[2]].backupDisk # -1}

\* C2: mirror integrity.  In every state reached by writes (appends, rewrites, rewrites
\* that extend the tagline) and recoveries, every written logical address has its
\* primary copy and its mirror copy on different disks.
C2_MirrorIntegrity ==
    \A a \in Written : Globtag[a[1]][a[2]].disk # Globtag[a[1]][a[2]].backupDisk

\* A rewrite has extended its tagline by a block and a recovery followed.
C2_Witness ==
    /\ call.name = "signal"
    /\ call.failed # {}
    /\ prev.name = "write"
    /\ prev.rewritting
    /\ prev.ret = 0
    /\ prev.blks = 2
    /\ <<prev.tag, prev.bnum + 1>> \in Written
    /\ Cardinality(Written) = 2

\* The last call was raid_disk_signal with exactly the disk X failed.
Recovered(X) == call.name = "signal" /\ call.failed = {X}

\* The content of the array at a disk position.
ContentAt(d, p) == raid.content[d][p]

\* C3: recovery restores content.  After raid_disk_signal completes for a single failed
\* disk X, every written block with its primary copy on X has, at its primary position,
\* the content of its mirror copy, and every written block with its mirror copy on X
\* has, at its mirror position, the content of its primary copy.
C3_RecoveryRestores ==
    \A X \in Disks :
        (Recovered(X) /\ call.ret = 0) =>
            \A a \in Written :
                LET b == Globtag[a[1]][a[2]]
                IN  (b.disk = X \/ b.backupDisk = X) =>
                        ContentAt(b.disk, b.diskPosition)
                            = ContentAt(b.backupDisk, b.backupDiskPosition)

\* C4: recovery frame.  Recovering a failed disk X sends FORMAT and WRITE operations to
\* X only, leaves the content of every other disk as it was, and leaves every entry of
\* the block mapping as it was before the failure.
C4_RecoveryFrame ==
    \A X \in Disks :
        Recovered(X) =>
            /\ \A k \in DOMAIN call.trace :
                   call.trace[k].op \in {"FORMAT", "WRITE"} => call.trace[k].disk = X
            /\ \A d \in Disks \ {X} : raid.content[d] = call.pre.content[d]
            /\ Globtag = call.pre.Globtag

\* A recovery that formatted X, read from another disk and wrote a block back to X.
C4_Witness ==
    \E X \in Disks :
        /\ Recovered(X)
        /\ call.ret = 0
        /\ \E k \in DOMAIN call.trace :
               call.trace[k].op = "FORMAT" /\ call.trace[k].disk = X
        /\ \E k \in DOMAIN call.trace :
               call.trace[k].op = "READ" /\ call.trace[k].disk # X
        /\ \E k \in DOMAIN call.trace :
               call.trace[k].op = "WRITE" /\ call.trace[k].disk = X

\* The indices of the physical operations of the last call whose response failed
\* validation.
FailedOps(ops) ==
    {k \in DOMAIN call.trace : call.trace[k].op \in ops /\ ~call.trace[k].ok}

\* C5: read failure reporting.  In a multi-block read, if the response to the physical
\* READ of any one of the blocks fails validation, the call returns failure, whatever
\* happens to the later blocks of the call.
C5_ReadFailureReported ==
    (call.name = "read" /\ call.blks > 1 /\ FailedOps({"READ"}) # {}) => call.ret # 0

\* C6: write abort.  In tagline_write every physical WRITE is validated before the next
\* physical operation: at the first response that fails validation the call returns
\* failure and no further physical operation follows, and the WRITEs the call had
\* applied before stay in the array.
C6_WriteAbort ==
    call.name = "write" =>
        /\ \A k \in FailedOps(Physical) :
               /\ call.ret # 0
               /\ \A m \in DOMAIN call.trace : m > k => call.trace[m].op \notin Physical
        /\ \A k \in DOMAIN call.trace :
               (call.trace[k].op = "WRITE" /\ call.trace[k].ok) =>
                   \A i \in 1 .. call.trace[k].n :
                       ContentAt(call.trace[k].disk, call.trace[k].pos + i - 1)
                           = call.trace[k].data[i]

\* A write whose second WRITE was refused after its first WRITE was applied.
C6_Witness ==
    /\ call.name = "write"
    /\ call.ret # 0
    /\ \E k \in FailedOps({"WRITE"}) :
           \E j \in DOMAIN call.trace :
               /\ j < k
               /\ call.trace[j].op = "WRITE"
               /\ call.trace[j].ok
               /\ ContentAt(call.trace[j].disk, call.trace[j].pos) = call.trace[j].data[1]

\* C7: if any response fails validation while a failed disk is reconstructed (the
\* FORMAT, a reconstruction READ or a reconstruction WRITE), raid_disk_signal returns a
\* failure to its caller.
C7_RecoveryFailurePropagates ==
    (call.name = "signal" /\ FailedOps({"FORMAT", "READ", "WRITE"}) # {}) => call.ret # 0

\* The last call reads one block of the range the call before it wrote with success.
ReadsWrittenBlock ==
    /\ call.name = "read"
    /\ call.blks = 1
    /\ prev.name = "write"
    /\ prev.ret = 0
    /\ call.tag = prev.tag
    /\ call.bnum >= prev.bnum
    /\ call.bnum < prev.bnum + prev.blks

\* C9: cache consistency.  Immediately after a successful write of a block, a read of
\* that block sends no physical READ to the array, is served from the cache with the
\* written data, and increments the cache's hit counter.
C9_CacheConsistency ==
    ReadsWrittenBlock =>
        /\ \A k \in DOMAIN call.trace : call.trace[k].op # "READ"
        /\ call.ret = 0
        /\ call.out = << prev.buf[call.bnum - prev.bnum + 1] >>
        /\ hit = call.pre.hit + 1

\* The slot of a full cache array a put of a new key has to replace: the smallest
\* timestamp, the lowest slot among equals.
Victim(ca) ==
    CHOOSE v \in DOMAIN ca :
        \A j \in DOMAIN ca :
            \/ ca[v].timestamp < ca[j].timestamp
            \/ (ca[v].timestamp = ca[j].timestamp /\ v <= j)

\* The last call was a put of a key the cache did not hold, every slot holding an entry.
EvictingPut ==
    /\ call.name = "put"
    /\ \A i \in DOMAIN call.pre.cacheArray : call.pre.cacheArray[i].disk # -1
    /\ <<call.disk, call.block>> \notin KeysOf(call.pre.cacheArray)

\* C8: eviction.  When the cache holds capacity entries and put is called with a key
\* that is not present, exactly one entry is replaced, the one with the smallest
\* timestamp (the lowest slot on a tie); every other entry keeps its key and payload;
\* a get of the evicted key that follows is a miss.
C8_Eviction ==
    /\ EvictingPut =>
           LET old == call.pre.cacheArray
               v   == Victim(old)
           IN  /\ cacheArray[v].disk = call.disk
               /\ cacheArray[v].block = call.block
               /\ cacheArray[v].data = call.buf
               /\ call.evicted = {<<old[v].disk, old[v].block>>}
               /\ \A i \in DOMAIN old \ {v} :
                      /\ cacheArray[i].disk = old[i].disk
                      /\ cacheArray[i].block = old[i].block
                      /\ cacheArray[i].data = old[i].data
    /\ (call.name = "get" /\ prev.name = "put" /\ <<call.disk, call.block>> \in prev.evicted)
           => ~call.found

\* A get of the key that the put before it evicted from a full cache.
C8_Witness ==
    /\ call.name = "get"
    /\ prev.name = "put"
    /\ <<call.disk, call.block>> \in prev.evicted
    /\ ~call.found
    /\ \A i \in DOMAIN cacheArray : cacheArray[i].disk # -1

\* C10: codec validation.  For every request and every response opcode, the validation
\* succeeds exactly when the response's status bit is 0, its disk number, block count
\* and type are the request's, and its block id is the request's or the operation is
\* STATUS; so the request echoed unchanged validates, and a response that differs from
\* it in the type, the disk number, the block count or (unless STATUS) the id does not.
C10_CodecValidation ==
    call.name = "decode" =>
        /\ call.ret = 0 <=>
               /\ call.response[4] % 2 = 0
               /\ call.response[3] = call.diskNumber
               /\ call.response[2] = call.blockQuantity
               /\ call.response[1] = call.type
               /\ \/ SubSeq(call.response, 5, 8) = IdBytes(call.id)
                  \/ call.type = RAID_STATUS
        /\ call.response = call.operation => call.ret = 0
        /\ \A k \in {1, 2, 3} :
               (call.response[k] # call.operation[k]
                  /\ \A j \in (1 .. 8) \ {k} : call.response[j] = call.operation[j])
                   => call.ret # 0
        /\ (SubSeq(call.response, 5, 8) # SubSeq(call.operation, 5, 8)
              /\ SubSeq(call.response, 1, 4) = SubSeq(call.operation, 1, 4)
              /\ call.type # RAID_STATUS)
               => call.ret # 0

\* A response that differs from its request in the block count alone was rejected.
C10_Witness ==
    /\ call.name = "decode"
    /\ call.ret # 0
    /\ call.response[2] # call.operation[2]
    /\ \A j \in (1 .. 8) \ {2} : call.response[j] = call.operation[j]

\* The last call was a write whose start block was below the tagline's usage count.
Rewriting == call.name = "write" /\ call.bnum < call.pre.tagcounter[call.tag]

\* The mapping of block bnum + i of the last call's tagline when the call started.
Before(i) == call.pre.Globtag[call.tag][call.bnum + i]

\* The blocks of the last call's range were contiguous on the primary's disk (on the
\* mirror's disk) when the call started.
ContiguousPrimary ==
    /\ Before(0).disk # -1
    /\ \A i \in 1 .. (call.blks - 1) :
           /\ Before(i).disk = Before(0).disk
           /\ Before(i).diskPosition = Before(0).diskPosition + i

ContiguousMirror ==
    /\ Before(0).backupDisk # -1
    /\ \A i \in 1 .. (call.blks - 1) :
           /\ Before(i).backupDisk = Before(0).backupDisk
           /\ Before(i).backupDiskPosition = Before(0).backupDiskPosition + i

\* The WRITE events of the last call addressed to disk d.
WritesTo(d) == {k \in DOMAIN call.trace : call.trace[k].op = "WRITE" /\ call.trace[k].disk = d}

\* C11: rewrite contiguity.  A rewrite of k >= 2 blocks that are contiguous on the
\* primary's disk sends that disk exactly one WRITE, of k blocks, at the position of the
\* range's first block, and no single-block WRITE; likewise for the mirror's disk when
\* the blocks are contiguous there.
C11_RewriteContiguity ==
    (Rewriting /\ call.blks >= 2) =>
        /\ ContiguousPrimary =>
               /\ Cardinality(WritesTo(Before(0).disk)) = 1
               /\ \A k \in WritesTo(Before(0).disk) :
                      /\ call.trace[k].n = call.blks
                      /\ call.trace[k].pos = Before(0).diskPosition
        /\ ContiguousMirror =>
               /\ Cardinality(WritesTo(Before(0).backupDisk)) = 1
               /\ \A k \in WritesTo(Before(0).backupDisk) :
                      /\ call.trace[k].n = call.blks
                      /\ call.trace[k].pos = Before(0).backupDiskPosition

\* C12: session ordering.  In every session, including one started after an earlier
\* shutdown, the first operation the array is sent is INIT, every disk is sent a FORMAT
\* in that session before any READ or WRITE addressed to it, and CLOSE is the last
\* operation sent.
C12_SessionOrdering ==
    /\ wire.first \in {"none", "INIT"}
    /\ wire.unformatted \cap Disks = {}
    /\ ~wire.afterClose
    /\ (call.name = "close" /\ call.ret = 0) => wire.last = "CLOSE"

\* The last call was a successful write whose start block was not below the tagline's
\* usage count.
Appended == call.name = "write" /\ ~Rewriting /\ call.ret = 0

\* C13: append placement.  A successful append of count blocks records, for each i in
\* 0..count-1, the primary (P, cP+1+i) and the mirror (M, cM+1+i), where P # M are two
\* disks and cP, cM their cursors before the call; it advances the cursors of P and M by
\* count, leaves the cursor of every other disk unchanged, and increases the tagline's
\* usage count by count.
C13_AppendPlacement ==
    Appended =>
        \E P \in Disks, M \in Disks :
            /\ P # M
            /\ \A i \in 0 .. (call.blks - 1) :
                   Globtag[call.tag][call.bnum + i] =
                       [disk |-> P, diskPosition |-> call.pre.array[P].blocks + 1 + i,
                        backupDisk |-> M,
                        backupDiskPosition |-> call.pre.array[M].blocks + 1 + i]
            /\ array[P].blocks = call.pre.array[P].blocks + call.blks
            /\ array[M].blocks = call.pre.array[M].blocks + call.blks
            /\ \A d \in Disks \ {P, M} : array[d].blocks = call.pre.array[d].blocks
            /\ tagcounter[call.tag] = call.pre.tagcounter[call.tag] + call.blks

\* A successful append of two blocks to a tagline that had one, on two disks whose
\* cursors differed, the primary's disk already holding a block.
C13_Witness ==
    /\ Appended
    /\ call.blks = 2
    /\ call.pre.tagcounter[call.tag] = 1
    /\ call.pre.array[Globtag[call.tag][call.bnum].disk].blocks >= 0
    /\ call.pre.array[Globtag[call.tag][call.bnum].backupDisk].blocks
           # call.pre.array[Globtag[call.tag][call.bnum].disk].blocks

\* 1 + the largest block index of row g of the mapping that has a primary copy; 0 for
\* a row with none.
HighWater(g) ==
    LET mapped == {j \in DOMAIN g : g[j].disk # -1}
    IN  IF mapped = {} THEN 0 ELSE 1 + (CHOOSE j \in mapped : \A k \in mapped : k <= j)

\* C14: the usage count is a high-water mark.  A successful write that starts with the
\* usage count of its tagline at 1 + the largest block index written leaves it at
\* 1 + the largest block index written, whatever the start block (gaps included); and
\* a write is treated as a rewrite exactly when its start block already has a mapping.
C14_UsageHighWater ==
    call.name = "write" =>
        /\ (call.ret = 0
              /\ call.pre.tagcounter[call.tag] = HighWater(call.pre.Globtag[call.tag]))
               => tagcounter[call.tag] = HighWater(Globtag[call.tag])
        /\ Rewriting <=> Before(0).disk # -1

\* The copies the mapping g places: <<kind, tagline, block, disk, position>>.
Copies(g) ==
    {<<"primary", i, j, g[i][j].disk, g[i][j].diskPosition>> :
        i \in DOMAIN g, j \in 0 .. (MAX_TAGLINE_BLOCK_NUMBER - 1)}
    \cup {<<"mirror", i, j, g[i][j].backupDisk, g[i][j].backupDiskPosition>> :
        i \in DOMAIN g, j \in 0 .. (MAX_TAGLINE_BLOCK_NUMBER - 1)}

\* The copies that have a place.
Placed(g) == {c \in Copies(g) : c[4] # -1}

\* This step stays within a session.
InSession == session = "open" /\ session' = "open"

\* C15: a disk's allocation cursor never decreases.  Over the writes, reads and failure
\* recoveries of a session no disk's cursor decreases, and no physical position is handed
\* out twice: a copy placed by a step lies above its disk's cursor before the step and
\* not above the cursor after it, and no two placed copies share a disk position.
C15_CursorMonotonic ==
    /\ [][InSession =>
             /\ \A d \in Disks : array'[d].blocks >= array[d].blocks
             /\ \A c \in Placed(Globtag') \ Placed(Globtag) :
                    /\ c[5] > array[c[4]].blocks
                    /\ c[5] <= array'[c[4]].blocks]_vars
    /\ [](\A c \in Placed(Globtag), e \in Placed(Globtag) :
              (c[4] = e[4] /\ c[5] = e[5]) => c = e)

\* A failed disk that held blocks has been recovered, its cursor still past them.
C15_Witness ==
    \E X \in Disks :
        /\ Recovered(X)
        /\ call.ret = 0
        /\ array[X].blocks >= 1
        /\ \E k \in DOMAIN call.trace : call.trace[k].op = "FORMAT" /\ call.trace[k].disk = X
        /\ \E k \in DOMAIN call.trace : call.trace[k].op = "WRITE" /\ call.trace[k].disk = X

\* The cursor of a disk that has just been formatted (tagline_driver.c:163-164).
FreshCursor == 0 - 1

\* C16: recovery resets the cursor.  When raid_disk_signal recovers the failed disk X
\* and the array accepts the FORMAT, X's allocation cursor is reset by the reformat: it
\* is the cursor of a freshly formatted disk when the reconstruction is over, no step of
\* the reconstruction allocating anything.
C16_RecoveryResetsCursor ==
    \A X \in Disks :
        (Recovered(X)
           /\ \E k \in DOMAIN call.trace :
                  call.trace[k].op = "FORMAT" /\ call.trace[k].disk = X /\ call.trace[k].ok)
            => array[X].blocks = FreshCursor

\* The last call was a successful rewrite of a range whose blocks all had both copies
\* placed when the call started.
RewroteInPlace ==
    /\ Rewriting
    /\ call.ret = 0
    /\ \A i \in 0 .. (call.blks - 1) : Before(i).disk # -1 /\ Before(i).backupDisk # -1

\* The disk positions the range of the last call had when the call started.
PlacesBefore ==
    {<<Before(i).disk, Before(i).diskPosition>> : i \in 0 .. (call.blks - 1)}
    \cup {<<Before(i).backupDisk, Before(i).backupDiskPosition>> : i \in 0 .. (call.blks - 1)}

\* C17: in-place rewrite.  A successful rewrite whose start block is below the usage
\* count and whose whole range is already written (every rewrite of one block among
\* them) writes both copies of each block at the disk positions they already had, and
\* leaves every entry of the mapping, every disk's cursor and the usage counts as they
\* were.
C17_InPlaceRewrite ==
    RewroteInPlace =>
        /\ \A i \in 0 .. (call.blks - 1) :
               /\ ContentAt(Before(i).disk, Before(i).diskPosition) = call.buf[i + 1]
               /\ ContentAt(Before(i).backupDisk, Before(i).backupDiskPosition)
                      = call.buf[i + 1]
        /\ \A k \in DOMAIN call.trace :
               call.trace[k].op = "WRITE" =>
                   \A n \in 0 .. (call.trace[k].n - 1) :
                       <<call.trace[k].disk, call.trace[k].pos + n>> \in PlacesBefore
        /\ Globtag = call.pre.Globtag
        /\ array = call.pre.array
        /\ tagcounter = call.pre.tagcounter

\* A two-block rewrite in place of blocks that were not contiguous on the primary's
\* disk: the second block went out in a WRITE of its own.
C17_Witness ==
    /\ RewroteInPlace
    /\ call.blks = 2
    /\ ~ContiguousPrimary
    /\ \E k \in DOMAIN call.trace :
           /\ call.trace[k].op = "WRITE"
           /\ call.trace[k].disk = Before(1).disk
           /\ call.trace[k].pos = Before(1).diskPosition
           /\ call.trace[k].n = 1

\* The mapping of block bnum + i of the last call's tagline after the call.
After(i) == Globtag[call.tag][call.bnum + i]

\* The blocks of the last call's range that had no mapping when the call started.
NewBlocks == {i \in 0 .. (call.blks - 1) : Before(i).disk = -1}

\* The positions on disk d the last call gave to blocks that had no mapping.
NewPrimaries(d) == {i \in NewBlocks : After(i).disk = d}
NewMirrors(d) == {i \in NewBlocks : After(i).backupDisk = d}
NewPositions(d) ==
    {After(i).diskPosition : i \in NewPrimaries(d)}
    \cup {After(i).backupDiskPosition : i \in NewMirrors(d)}

\* The last call was a successful rewrite that reached blocks with no mapping.
Extended == Rewriting /\ call.ret = 0 /\ NewBlocks # {}

\* C18: a rewrite that extends the tagline.  Each block of the range with no mapping
\* gets a primary on a disk that is neither the block's mirror disk nor the mirror disk
\* of the range's first block, and a mirror on a disk that is neither the block's primary
\* disk nor the primary disk of the range's first block; each copy is placed at its
\* disk's cursor + 1 and advances that cursor by exactly 1, so the new copies on a disk
\* fill the positions from the old cursor + 1 to the new cursor; and the usage count
\* grows by exactly 1 per newly mapped block.
C18_ExtendingRewrite ==
    Extended =>
        /\ \A i \in NewBlocks :
               /\ After(i).disk \in Disks \ {After(i).backupDisk, Before(0).backupDisk}
               /\ After(i).backupDisk \in Disks \ {After(i).disk, Before(0).disk}
        /\ \A d \in Disks :
               /\ NewPositions(d) = (call.pre.array[d].blocks + 1) .. array[d].blocks
               /\ array[d].blocks - call.pre.array[d].blocks
                      = Cardinality(NewPrimaries(d)) + Cardinality(NewMirrors(d))
        /\ tagcounter[call.tag] = call.pre.tagcounter[call.tag] + Cardinality(NewBlocks)

\* A three-block rewrite of a tagline that had one block: two blocks were new.
C18_Witness ==
    /\ Extended
    /\ call.blks = 3
    /\ Cardinality(NewBlocks) = 2
    /\ tagcounter[call.tag] = 3

\* C19: write-through ordering.  Every WRITE tagline_write sends to a disk of the array
\* (primary or mirror, batched or single, append or rewrite) is preceded in the same
\* call by a cache put for each disk block the WRITE covers, with the key (disk,
\* position) and the payload the WRITE sends for that block.
C19_WriteThrough ==
    call.name = "write" =>
        \A k \in DOMAIN call.trace :
            (call.trace[k].op = "WRITE" /\ call.trace[k].disk \in Disks) =>
                \A n \in 0 .. (call.trace[k].n - 1) :
                    \E j \in 1 .. (k - 1) :
                        /\ call.trace[j].op = "PUT"
                        /\ call.trace[j].disk = call.trace[k].disk
                        /\ call.trace[j].pos = call.trace[k].pos + n
                        /\ call.trace[j].data = << call.trace[k].data[n + 1] >>

\* The slots of the cache array that hold an entry.
Entries == {i \in DOMAIN cacheArray : <<cacheArray[i].disk, cacheArray[i].block>> # <<-1, -1>>}

\* C20: cache invariant.  After any sequence of put and get calls the cache holds at
\* most capacity entries and at most one entry for any (disk, block) key.
C20_CacheInvariant ==
    /\ Cardinality(Entries) <= glob_max_items
    /\ \A i \in Entries, j \in Entries :
           (cacheArray[i].disk = cacheArray[j].disk /\ cacheArray[i].block = cacheArray[j].block)
               => i = j

\* A put of a key the full cache already held: the entry was updated, not added.
C20_Witness ==
    /\ call.name = "put"
    /\ <<call.disk, call.block>> \in KeysOf(call.pre.cacheArray)
    /\ Cardinality(KeysOf(call.pre.cacheArray)) = TAGLINE_CACHE_SIZE
    /\ Cardinality(Entries) = TAGLINE_CACHE_SIZE
    /\ \E i \in Entries : cacheArray[i].data = call.buf

\* The slots of the cache array before the last cache call that held its key.
SlotsOfKey ==
    {i \in DOMAIN call.pre.cacheArray :
        /\ call.pre.cacheArray[i].disk = call.disk
        /\ call.pre.cacheArray[i].block = call.block}

\* C21: cache get.  get(disk, block) reports a hit exactly when the key was put and
\* has not been evicted since, and then returns the payload of the most recent put of
\* that key; a hit changes no entry but for the clock of the entry found, which becomes
\* the current clock; a miss creates no entry and changes no entry's key, payload or
\* clock.
C21_CacheGet ==
    call.name = "get" =>
        /\ call.found <=> (\E p \in call.pre.live : p[1] = <<call.disk, call.block>>)
        /\ call.found => <<<<call.disk, call.block>>, call.data>> \in call.pre.live
        /\ call.found =>
               \E i \in SlotsOfKey :
                   /\ cacheArray = [call.pre.cacheArray EXCEPT ![i].timestamp = timea]
                   /\ timea = call.pre.timea + 1
        /\ ~call.found => cacheArray = call.pre.cacheArray

\* The last call was a put of a key the cache held.
PutOfPresentKey ==
    /\ call.name = "put"
    /\ <<call.disk, call.block>> \in KeysOf(call.pre.cacheArray)

\* C22: put on an existing key.  Whether or not the cache is full, a put for a key that
\* is present overwrites that entry's payload and sets its clock to the clock just
\* incremented, so that it is the entry touched last, and evicts or changes no other
\* entry.
C22_PutExisting ==
    PutOfPresentKey =>
        /\ timea = call.pre.timea + 1
        /\ \E i \in SlotsOfKey :
               /\ cacheArray = [call.pre.cacheArray EXCEPT ![i].data = call.buf,
                                                           ![i].timestamp = timea]
               /\ \A j \in Entries \ {i} : cacheArray[j].timestamp < cacheArray[i].timestamp
        /\ call.evicted = {}

\* A put, in a full cache, of the key of the entry touched least recently.
C22_Witness ==
    /\ PutOfPresentKey
    /\ Cardinality(KeysOf(call.pre.cacheArray)) = TAGLINE_CACHE_SIZE
    /\ call.pre.objectCount = TAGLINE_CACHE_SIZE
    /\ \E i \in SlotsOfKey :
           /\ \A j \in DOMAIN call.pre.cacheArray \ {i} :
                  call.pre.cacheArray[i].timestamp < call.pre.cacheArray[j].timestamp
           /\ cacheArray[i].data = call.buf

\* In the last call, a raid_disk_signal, the array answered the STATUS of disk d with
\* the failed sentinel: d had failed, at the call or before it without having been
\* formatted since, and its STATUS was sent and validated.
ReportedFailed(d) ==
    /\ d \in call.failed \cup call.pre.down
    /\ \E k \in DOMAIN call.trace :
           call.trace[k].op = "STATUS" /\ call.trace[k].disk = d /\ call.trace[k].ok

\* C23: disk status transitions.  In raid_disk_signal a disk becomes Failed only when
\* its STATUS response carries the failed sentinel (the response validates although its
\* id is not the request's); it is Ready again only if the FORMAT and every READ and
\* WRITE of its reconstruction validated, and stays Failed if one of them did not; a
\* disk whose STATUS response is not the sentinel keeps its status and is sent no
\* FORMAT and no WRITE.
C23_StatusTransitions ==
    call.name = "signal" =>
        \A d \in Disks :
            /\ ReportedFailed(d) =>
                   array[d].status = (IF FailedOps({"FORMAT", "READ", "WRITE"}) = {}
                                      THEN RAID_DISK_READY ELSE RAID_DISK_FAILED)
            /\ ~ReportedFailed(d) =>
                   /\ array[d].status = call.pre.array[d].status
                   /\ \A k \in DOMAIN call.trace :
                          call.trace[k].op \in {"FORMAT", "WRITE"} => call.trace[k].disk # d

\* A recovery that stopped at a WRITE the array refused: the disk is left Failed.
C23_Witness ==
    \E X \in Disks :
        /\ Recovered(X)
        /\ ReportedFailed(X)
        /\ FailedOps({"WRITE"}) # {}
        /\ array[X].status = RAID_DISK_FAILED

\* The mapping of block bnum + i of the tagline of the last call, a read.
ReadBlock(i) == call.pre.Globtag[call.tag][call.bnum + i]

RECURSIVE ReadShape(_, _)
\* The events of the last call from the k-th on are those of reading the blocks from
\* the i-th on: for each block a cache get at its primary place, and after a miss one
\* READ of one block at that place and a put of the block read under that key.
ReadShape(i, k) ==
    IF i >= call.blks THEN k = Len(call.trace) + 1
    ELSE /\ k <= Len(call.trace)
         /\ call.trace[k].op = "GET"
         /\ call.trace[k].disk = ReadBlock(i).disk
         /\ call.trace[k].pos = ReadBlock(i).diskPosition
         /\ IF call.trace[k].ok THEN ReadShape(i + 1, k + 1)
            ELSE /\ k + 2 <= Len(call.trace)
                 /\ call.trace[k + 1].op = "READ"
                 /\ call.trace[k + 1].disk = ReadBlock(i).disk % 256
                 /\ call.trace[k + 1].pos = ReadBlock(i).diskPosition
                 /\ call.trace[k + 1].n = 1
                 /\ call.trace[k + 2].op = "PUT"
                 /\ call.trace[k + 2].disk = ReadBlock(i).disk
                 /\ call.trace[k + 2].pos = ReadBlock(i).diskPosition
                 /\ call.trace[k + 2].data = call.trace[k + 1].data
                 /\ ReadShape(i + 1, k + 3)

\* C24: read path.  For each block requested tagline_read probes the cache at the block's
\* primary (disk, position); on a hit it sends the array nothing; on a miss it sends
\* exactly one READ of one block addressed to that primary (disk, position) and puts the
\* block returned into the cache under that key; no READ is addressed to a mirror copy.
C24_ReadPath == call.name = "read" => ReadShape(0, 1)

\* A read of two written blocks: the first came from the cache, the second from a READ
\* at its primary place, which is not its mirror's.
C24_Witness ==
    /\ call.name = "read"
    /\ call.blks = 2
    /\ call.ret = 0
    /\ Len(call.trace) = 4
    /\ call.trace[1].ok
    /\ call.trace[3].op = "READ"
    /\ ReadBlock(1).disk \in Disks
    /\ call.out[2] = ContentAt(ReadBlock(1).disk, ReadBlock(1).diskPosition)

\* Writes of runs of up to MaxRun blocks on up to MaxLines taglines, enough to fill a disk.
InitFill == Start([Budget(MaxLines, MaxWrites, 0, 0, 1, 0) EXCEPT !.blks = MaxRun])

NextFill == DriverInit \/ Write

SpecFill == InitFill /\ [][NextFill]_vars

\* C25: disk selection keeps the chosen disks from being full.  No write allocates or
\* addresses a physical position at or beyond a disk's block capacity: every WRITE sent
\* lies within positions 0 .. RAID_DISKBLOCKS - 1, and so does every disk's cursor and
\* every position recorded in the mapping.
C25_WithinCapacity ==
    /\ call.name = "write" =>
           \A k \in DOMAIN call.trace :
               call.trace[k].op = "WRITE" =>
                   call.trace[k].pos + call.trace[k].n <= RAID_DISKBLOCKS
    /\ \A d \in Disks : array[d].blocks < RAID_DISKBLOCKS
    /\ \A c \in Copies(Globtag) : c[5] < RAID_DISKBLOCKS

\* Two copies lie at the same place of the same disk.
SamePlace(c1, c2) == c1[4] = c2[4] /\ c1[5] = c2[5]

\* C26: unique physical placement.  After any sequence of writes and recoveries no two
\* distinct block copies share a location: over all taglines and logical blocks each
\* assigned (disk, position) pair belongs to exactly one primary or mirror copy.
C26_UniquePlacement ==
    \A c1 \in Placed(Globtag), c2 \in Placed(Globtag) : SamePlace(c1, c2) => c1 = c2

\* A recovery has just rebuilt a disk that holds copies of blocks of two taglines.
C26_Witness ==
    /\ call.name = "signal"
    /\ call.ret = 0
    /\ \E d \in Disks :
           /\ ReportedFailed(d)
           /\ \E c1 \in Placed(Globtag), c2 \in Placed(Globtag) :
                  c1[4] = d /\ c2[4] = d /\ c1[2] # c2[2]

\* Runs of up to MaxRun blocks written, rewritten and read back on one tagline.
InitReadBack == Start([Budget(1, MaxRewrites, MaxReads, 0, 1, 0) EXCEPT !.blks = MaxRun])

NextReadBack == DriverInit \/ Write \/ Read

SpecReadBack == InitReadBack /\ [][NextReadBack]_vars

C28_FailedAppendFrame ==
    (call.name = "write" /\ ~Rewriting /\ FailedOps({"WRITE"}) # {}) =>
        /\ call.ret # 0
        /\ Globtag = call.pre.Globtag
        /\ array = call.pre.array
        /\ tagcounter = call.pre.tagcounter

\* An append of two blocks whose primary WRITE was applied and whose mirror WRITE was
\* refused.
C28_Witness ==
    /\ call.name = "write"
    /\ ~Rewriting
    /\ call.blks = 2
    /\ call.ret # 0
    /\ \E k \in FailedOps({"WRITE"}) :
           \E m \in 1 .. (k - 1) :
               /\ call.trace[m].op = "WRITE"
               /\ call.trace[m].ok
               /\ call.trace[m].disk # call.trace[k].disk
               /\ ContentAt(call.trace[m].disk, call.trace[m].pos) = call.buf[1]

----------------------------------------------------------------------------
(* tagline_write draw by draw: each rand() of its selection loops is a     *)
(* step, and between the loops the call does what tagline_write does.      *)

\* The smallest array that can hold a block and its mirror on different disks.
MinDisks == 2

\* The disks rand() % RAID_DISKS draws from, in a build with budget.disks disks.
LoopDisks == 0 .. (budget.disks - 1)

\* Where the call in progress is: "idle" between calls, else the loop it is in.
Phase == IF call.name = "write" /\ "pc" \in DOMAIN call THEN call.pc ELSE "idle"

\* tagline_driver.c:343: the disks the primary of tail block i may not go to.
BadForPrimary ==
    {TagAt(State({}), call.tag, call.bnum + call.blocksAvailable + call.i).backupDisk,
     TagAt(State({}), call.tag, call.bnum).backupDisk}

\* tagline_driver.c:413: the disks the mirror of tail block i may not go to.
BadForBackup ==
    {TagAt(State({}), call.tag, call.bnum + call.blocksAvailable2 + call.i).disk,
     TagAt(State({}), call.tag, call.bnum).disk}

\* tagline_driver.c:392-408: after the primary's part of a rewrite, the first WRITE of
\* the mirror's partial part, up to its one-by-one loop; pc is where the call is then.
AfterPrimary(s, c) ==
    IF c.blocksAvailable2 < c.blks
    THEN {[s |-> q.s, ret |-> q.ret, pc |-> IF q.ret # 0 THEN "idle" ELSE "mirror"]
          : q \in WriteBackupPartial(s, c.tag, c.bnum, c.blocksAvailable2, c.buf,
                                     c.blocksAvailable, c.blocksAvailable2, c.backupDisk)}
    ELSE {[s |-> s, ret |-> 0, pc |-> "idle"]}

\* tagline_driver.c:285-338: the rewriting branch up to its first one-by-one loop.
RewriteHead(s0, c) ==
    UNION { UNION {
        IF b.ret # 0 THEN {[s |-> b.s, ret |-> 1, pc |-> "idle"]}
        ELSE IF c.blocksAvailable < c.blks
             THEN {[s |-> q.s, ret |-> q.ret, pc |-> IF q.ret # 0 THEN "idle" ELSE "primary"]
                   : q \in WritePrimaryPartial(b.s, c.tag, c.bnum, c.blocksAvailable, c.buf,
                                               c.blocksAvailable, c.disk)}
        ELSE AfterPrimary(b.s, c)
      : b \in {IF a.ret # 0 THEN a
               ELSE IF c.blocksAvailable2 >= c.blks
                    THEN WriteBackupBatch(a.s, c.tag, c.bnum, c.blks, c.buf)
               ELSE a} }
      : a \in {IF c.blocksAvailable >= c.blks
               THEN WritePrimaryBatch(s0, c.tag, c.bnum, c.blks, c.buf)
               ELSE [s |-> s0, ret |-> 0]} }

\* The call goes on from n.s at n.pc; at "idle" it has returned n.ret.
Proceed(n, i) ==
    /\ Commit(n.s)
    /\ call' = [call EXCEPT !.pc = n.pc, !.ret = n.ret, !.i = i]
    /\ wire' = Sent(wire, n.s.trace, 1)
    /\ written' = IF n.pc = "idle"
                  THEN Record(written, call.tag, call.bnum, call.blks, call.buf, n.ret)
                  ELSE written
    /\ UNCHANGED <<prev, session, budget>>

\* A draw changes a local variable of the call and nothing else.
Drawn(disk, backupDisk) ==
    /\ call' = [call EXCEPT !.disk = disk, !.backupDisk = backupDisk]
    /\ UNCHANGED <<maxtaglines, tagcounter, array, Globtag, GlobResponse, glob_max_items,
                   objectCount, hit, miss, insert, get, timea, cacheArray, raid, prev,
                   session, budget, wire, written>>

\* tagline_driver.c:237-265: tagline_write(tag, bnum, blks, buf) is called, draws disk
\* and backupDisk and counts the contiguous blocks; it enters chooseDisk.
WriteEnter ==
    /\ session = "open"
    /\ Phase = "idle"
    /\ budget.writes > 0
    /\ \E tag \in 0 .. (maxtaglines - 1), bnum \in 0 .. (MAX_TAGLINE_BLOCK_NUMBER - 1),
          blks \in 1 .. budget.blks, disk \in LoopDisks, backupDisk \in LoopDisks :
          /\ bnum + blks <= MAX_TAGLINE_BLOCK_NUMBER
          /\ call' = [name |-> "write", pc |-> "chooseDisk", tag |-> tag, bnum |-> bnum,
                      blks |-> blks,
                      buf |-> Payload(MaxRewrites - budget.writes + 1, blks),
                      disk |-> disk, backupDisk |-> backupDisk, i |-> 0, ret |-> 0,
                      rewritting |-> bnum < tagcounter[tag],
                      blocksAvailable |-> BlocksAvailable(State({}), tag, bnum, blks),
                      blocksAvailable2 |-> BlocksAvailable2(State({}), tag, bnum, blks)]
    /\ budget' = [budget EXCEPT !.writes = @ - 1]
    /\ UNCHANGED <<maxtaglines, tagcounter, array, Globtag, GlobResponse, glob_max_items,
                   objectCount, hit, miss, insert, get, timea, cacheArray, raid, prev,
                   session, wire, written>>

\* tagline_driver.c:741-745: one turn of chooseDisk's loop for two disks.
DrawBoth(disk, backupDisk) ==
    /\ Phase = "chooseDisk"
    /\ call.disk = call.backupDisk
    /\ disk \in LoopDisks
    /\ backupDisk \in LoopDisks
    /\ Drawn(disk, backupDisk)

\* tagline_driver.c:285-338, 458-506: the two disks differ; an append is done whole, a
\* rewrite up to its first one-by-one loop.
Selected ==
    /\ Phase = "chooseDisk"
    /\ call.disk # call.backupDisk
    /\ \E n \in (IF call.rewritting
                  THEN RewriteHead(State({}), call)
                  ELSE {[s |-> o.s, ret |-> o.ret, pc |-> "idle"]
                        : o \in {AppendBlocks(State({}), call.tag, call.bnum, call.blks,
                                              call.buf, call.disk, call.backupDisk)}}) :
          Proceed(n, 0)

\* tagline_driver.c:343-345, 728-731: disk is the mirror's disk of the block or of the
\* first block; chooseDisk(&disk, NULL, 1) draws until the disk is another one.
DrawDisk(disk) ==
    /\ Phase = "primary"
    /\ call.disk \in BadForPrimary
    /\ disk \in LoopDisks \ {call.disk}
    /\ Drawn(disk, call.backupDisk)

\* tagline_driver.c:348-388: the primary copy of tail block i is written, on disk if
\* the block is new; after the last one the mirror's part follows.
PrimaryBlock ==
    /\ Phase = "primary"
    /\ call.disk \notin BadForPrimary
    /\ \E r \in PrimaryTail(State({}), call.tag, call.bnum,
                             call.blocksAvailable + call.i + 1, call.buf,
                             call.blocksAvailable, call.i, call.disk) :
          IF r.ret # 0 THEN Proceed([s |-> r.s, ret |-> 1, pc |-> "idle"], call.i)
          ELSE IF call.i + 1 < call.blks - call.blocksAvailable
               THEN Proceed([s |-> r.s, ret |-> 0, pc |-> "primary"], call.i + 1)
          ELSE \E n \in AfterPrimary(r.s, call) : Proceed(n, 0)

\* tagline_driver.c:413-415, 734-737: backupDisk is the primary's disk of the block or
\* of the first block; chooseDisk(NULL, &backupDisk, 1) draws until it is another one.
DrawBackup(backupDisk) ==
    /\ Phase = "mirror"
    /\ call.backupDisk \in BadForBackup
    /\ backupDisk \in LoopDisks \ {call.backupDisk}
    /\ Drawn(call.disk, backupDisk)

\* tagline_driver.c:418-453: the mirror copy of tail block i is written, on backupDisk
\* if the block is new; after the last one the call returns.
BackupBlock ==
    /\ Phase = "mirror"
    /\ call.backupDisk \notin BadForBackup
    /\ \E r \in BackupTail(State({}), call.tag, call.bnum,
                            call.blocksAvailable2 + call.i + 1, call.buf,
                            call.blocksAvailable, call.blocksAvailable2, call.i,
                            call.backupDisk) :
          IF r.ret # 0 THEN Proceed([s |-> r.s, ret |-> 1, pc |-> "idle"], call.i)
          ELSE IF call.i + 1 < call.blks - call.blocksAvailable2
               THEN Proceed([s |-> r.s, ret |-> 0, pc |-> "mirror"], call.i + 1)
          ELSE Proceed([s |-> r.s, ret |-> 0, pc |-> "idle"], 0)

\* One tagline in a build with MinDisks to RAID_DISKS disks.
InitLoops ==
    \E disks \in MinDisks .. RAID_DISKS :
        Start([lines |-> 1, writes |-> MaxRewrites, reads |-> 0, signals |-> 0,
               sessions |-> 1, faults |-> 0, blks |-> MaxBlks, disks |-> disks])

Draws ==
    \/ \E disk \in Disks, backupDisk \in Disks : DrawBoth(disk, backupDisk)
    \/ \E disk \in Disks : DrawDisk(disk)
    \/ \E backupDisk \in Disks : DrawBackup(backupDisk)

NextLoops == DriverInit \/ WriteEnter \/ Draws \/ Selected \/ PrimaryBlock \/ BackupBlock

\* rand() is fair: a value that stays possible while a loop turns is drawn in the end;
\* and the code between the loops runs on.
FairLoops ==
    /\ \A disk \in Disks, backupDisk \in Disks : WF_vars(DrawBoth(disk, backupDisk))
    /\ \A disk \in Disks : WF_vars(DrawDisk(disk))
    /\ \A backupDisk \in Disks : WF_vars(DrawBackup(backupDisk))
    /\ WF_vars(Selected \/ PrimaryBlock \/ BackupBlock)

SpecLoops == InitLoops /\ [][NextLoops]_vars /\ FairLoops

\* C29: write termination.  Under fair random choice every tagline_write call
\* eventually returns: the loop that draws two different disks and the loops that
\* re-select the disk of a tail block of a rewrite always end, for every reachable
\* mapping and any build with at least two disks.
C29_WriteTerminates == (Phase # "idle") ~> (Phase = "idle")

\* The same for the builds with more disks than MinDisks.
TerminatesWithSpareDisk == (Phase # "idle" /\ budget.disks > MinDisks) ~> (Phase = "idle")

====
